---------------------------- MODULE Spec2Model ----------------------------
(***************************************************************************)
(* A model of the code-injection core of headcrab (Linux x86-64):          *)
(*   - WorkerThread, the tracer actor (headcrab_inject/src/worker_thread.rs)*)
(*   - InjectionContext and InjectionModule (headcrab_inject/src/lib.rs,   *)
(*     headcrab_inject/src/module.rs)                                      *)
(*   - LinuxTarget's breakpoint manager (src/target/linux/mod.rs)          *)
(* Each part has its own specification over the shared variables; the      *)
(* variables of the other parts stay at their initial values.              *)
(***************************************************************************)
EXTENDS Integers, Sequences, FiniteSets, TLC

(***************************************************************************)
(* Bounds of the model.                                                    *)
(***************************************************************************)
\* Number of threads that hold a clone of the WorkerThread handle.
NumCallers == 3
\* Number of dispatches each caller issues.
MaxDispatch == 2
\* Largest number of symbols in the symbol table of the debuggee.
MaxSymbols == 3

VARIABLES
    \* ---- WorkerThread (tracer actor) ----
    cpc,        \* caller -> position inside WorkerThread::spawn
    ndisp,      \* caller -> number of dispatches started
    lock,       \* holder of the Mutex around WorkerThreadInner (0: free)
    wpc,        \* position of the tracer thread in its command loop
    wtask,      \* the task the tracer thread holds (<<>> when none)
    wres,       \* the boxed result the tracer thread is sending
    tstate,     \* task -> "new" | "submitted" | "running" | "finished" | "returned"
    submitted,  \* tasks in the order they were sent on tx
    completed,  \* tasks in the order the tracer thread finished running them
    got,        \* caller -> the results its dispatches returned, in order
    \* ---- the debuggee ----
    mem,        \* debuggee memory: mapped address -> byte
    rip,        \* the debuggee's program counter (user_regs_struct.rip)
    dstate,     \* "stopped" | "running" | "trapped" | "exited"
    hit,        \* address of the INT3 the debuggee last trapped on (NoAddr: none)
    execSince,  \* instruction addresses executed since the last unpause began
    \* ---- LinuxTarget (breakpoint manager) ----
    breakpoints, \* HashMap<usize, BreakpointEntry>
    crashed,    \* a panic unwound out of an operation
    ret,        \* the last operation and what it returned
    stepOver,   \* the step-over the last breakpoint operation performed
    \* ---- InjectionContext / InjectionModule ----
    ipc,        \* "init" before InjectionModule::new, "ready" after it
    alloc,      \* the three Memory allocators: code, readonly, readwrite
    maps,       \* pages the allocators mapped in the debuggee, in order
    allocs,     \* every region an allocator handed out
    nraw,       \* number of direct allocate_* calls made
    functions,  \* SecondaryMap<FuncId, Option<CompiledBytes>>
    data_objects, \* SecondaryMap<DataId, Option<CompiledBytes>>
    functions_to_finalize,      \* Vec<FuncId>
    data_objects_to_finalize,   \* Vec<DataId>
    breakpoint_trap,            \* address of the INT3 trap slot
    stacks,     \* the stacks allocate_stack handed out
    patched,    \* object -> the relocated buffer its finalize produced
    written     \* objects in the order finalize wrote them to the debuggee

wtVars == <<cpc, ndisp, lock, wpc, wtask, wres, tstate, submitted, completed, got>>

dbgVars == <<mem, rip, dstate, hit, execSince>>
bpVars == <<breakpoints, stepOver>>
\* Outcome of the last call on the target or the module.
callVars == <<crashed, ret>>
injVars == <<ipc, alloc, maps, allocs, nraw, functions, data_objects, functions_to_finalize,
             data_objects_to_finalize, breakpoint_trap, stacks, patched, written>>

vars == <<wtVars, dbgVars, bpVars, callVars, injVars>>

\* What the actions of one part leave alone.
WTFrame == UNCHANGED <<dbgVars, bpVars, callVars, injVars>>
BPFrame == UNCHANGED <<wtVars, injVars>>
InjFrame == UNCHANGED <<wtVars, bpVars, rip, dstate, hit, execSince>>

(***************************************************************************)
(* WorkerThread                                                            *)
(***************************************************************************)
Callers == 1..NumCallers
NoCaller == 0
Tasks == Callers \X (1..MaxDispatch)
NoTask == <<>>

\* The task a caller is dispatching: its ndisp-th closure.
CurTask(c) == <<c, ndisp[c]>>

\* A box that holds what the next caller's closure would have produced.
ResultOf_OtherCaller(t) == <<"result", <<(t[1] % NumCallers) + 1, t[2]>>>>

\* What the closure returns: a value only the task's own closure produces.
ResultOf(t) == <<"result", t>>

WTInit ==
    /\ cpc = [c \in Callers |-> "idle"]
    /\ ndisp = [c \in Callers |-> 0]
    /\ lock = NoCaller
    /\ wpc = "recv"
    /\ wtask = NoTask
    /\ wres = NoTask
    /\ tstate = [t \in Tasks |-> "new"]
    /\ submitted = <<>>
    /\ completed = <<>>
    /\ got = [c \in Callers |-> <<>>]

\* WorkerThread::new has returned a handle: the tracer thread got past init.
HandleExists == wpc \notin {"unspawned", "init", "init_send", "exited"}

\* The state before WorkerThread::new is called.
WTNewInit ==
    /\ cpc = [c \in Callers |-> "idle"]
    /\ ndisp = [c \in Callers |-> 0]
    /\ lock = NoCaller
    /\ wpc = "unspawned"
    /\ wtask = NoTask
    /\ wres = NoTask
    /\ tstate = [t \in Tasks |-> "new"]
    /\ submitted = <<>>
    /\ completed = <<>>
    /\ got = [c \in Callers |-> <<>>]

\* new: the channels are created and the thread is spawned; the calling
\* thread blocks in `rx_res.recv()`.
NewSpawn ==
    /\ wpc = "unspawned"
    /\ wpc' = "init"
    /\ ret' = [op |-> "WorkerThread::new", res |-> "blocked"]
    /\ UNCHANGED <<cpc, ndisp, lock, wtask, wres, tstate, submitted, completed, got>>
    /\ UNCHANGED <<dbgVars, bpVars, crashed, injVars>>

\* The spawned thread runs `f()`, which returns Ok((data, res)) or Err(err),
\* and starts to send the boxed status on tx_res.
NewInitRuns(ok) ==
    /\ wpc = "init"
    /\ wpc' = "init_send"
    /\ wres' = [status |-> IF ok THEN "Ok" ELSE "Err",
                value |-> IF ok THEN "R" ELSE "E", ranOn |-> "spawned thread"]
    /\ UNCHANGED <<cpc, ndisp, lock, wtask, tstate, submitted, completed, got>>
    /\ WTFrame

\* An init error after which the thread goes on into the command loop.
NewStatusReceived_AlwaysLoops ==
    /\ wpc = "init_send"
    /\ ret.op = "WorkerThread::new" /\ ret.res = "blocked"
    /\ wpc' = "recv"
    /\ ret' = [op |-> "WorkerThread::new", res |-> wres.status,
               handle |-> (wres.status = "Ok"), value |-> wres.value,
               ranOn |-> wres.ranOn]
    /\ wres' = NoTask
    /\ UNCHANGED <<cpc, ndisp, lock, wtask, tstate, submitted, completed, got>>
    /\ UNCHANGED <<dbgVars, bpVars, crashed, injVars>>

\* The send of the status meets `rx_res.recv()` in new. On Ok the thread
\* goes on to the command loop and new returns the handle with R; on Err
\* the thread returns and `?` returns the error from new.
NewStatusReceived ==
    /\ wpc = "init_send"
    /\ ret.op = "WorkerThread::new" /\ ret.res = "blocked"
    /\ wpc' = IF wres.status = "Ok" THEN "recv" ELSE "exited"
    /\ ret' = [op |-> "WorkerThread::new", res |-> wres.status,
               handle |-> (wres.status = "Ok"), value |-> wres.value,
               ranOn |-> wres.ranOn]
    /\ wres' = NoTask
    /\ UNCHANGED <<cpc, ndisp, lock, wtask, tstate, submitted, completed, got>>
    /\ UNCHANGED <<dbgVars, bpVars, crashed, injVars>>

\* A mutex that never excludes anybody: spawn without `self.0.lock()`.
LockAvailable_NoMutex == TRUE

\* `self.0.lock()` succeeds only while nobody holds the mutex.
LockAvailable == lock = NoCaller

\* spawn: `let inner = self.0.lock().unwrap();`
SpawnLock(c) ==
    /\ HandleExists
    /\ cpc[c] = "idle"
    /\ ndisp[c] < MaxDispatch
    /\ LockAvailable
    /\ lock' = c
    /\ ndisp' = [ndisp EXCEPT ![c] = @ + 1]
    /\ cpc' = [cpc EXCEPT ![c] = "locked"]
    /\ UNCHANGED <<wpc, wtask, wres, tstate, submitted, completed, got>>
    /\ WTFrame

\* spawn: `inner.tx.send(boxed closure)` starts; the channel has capacity 0,
\* so the sender stays blocked until the tracer thread takes the closure.
SpawnSend(c) ==
    /\ cpc[c] = "locked"
    /\ cpc' = [cpc EXCEPT ![c] = "sending"]
    /\ tstate' = [tstate EXCEPT ![CurTask(c)] = "submitted"]
    /\ submitted' = Append(submitted, CurTask(c))
    /\ UNCHANGED <<ndisp, lock, wpc, wtask, wres, completed, got>>
    /\ WTFrame

\* A spawn that returns as soon as its closure has been taken, without
\* waiting for the result.
WorkerRecv_FireAndForget(c) ==
    /\ wpc = "recv"
    /\ cpc[c] = "sending"
    /\ wpc' = "run"
    /\ wtask' = CurTask(c)
    /\ tstate' = [tstate EXCEPT ![CurTask(c)] = "running"]
    /\ cpc' = [cpc EXCEPT ![c] = "idle"]
    /\ lock' = IF lock = c THEN NoCaller ELSE lock
    /\ UNCHANGED <<ndisp, wres, submitted, completed, got>>
    /\ WTFrame

\* Command loop: `rx_cmd.recv().unwrap()` meets one blocked sender; that
\* sender's send returns and it goes on to `inner.rx.recv()`.
WorkerRecv(c) ==
    /\ wpc = "recv"
    /\ cpc[c] = "sending"
    /\ wpc' = "run"
    /\ wtask' = CurTask(c)
    /\ tstate' = [tstate EXCEPT ![CurTask(c)] = "running"]
    /\ cpc' = [cpc EXCEPT ![c] = "receiving"]
    /\ UNCHANGED <<ndisp, lock, wres, submitted, completed, got>>
    /\ WTFrame

\* Command loop: the closure runs against `&mut data` and returns its box.
WorkerRun ==
    /\ wpc = "run"
    /\ wpc' = "send"
    /\ wres' = ResultOf(wtask)
    /\ tstate' = [tstate EXCEPT ![wtask] = "finished"]
    /\ completed' = Append(completed, wtask)
    /\ wtask' = NoTask
    /\ UNCHANGED <<cpc, ndisp, lock, submitted, got>>
    /\ WTFrame

\* Command loop: `tx_res.send(result)` meets a caller blocked in
\* `inner.rx.recv()`; spawn downcasts the box and returns it, and the
\* MutexGuard `inner` is dropped on return.
WorkerSend(c) ==
    /\ wpc = "send"
    /\ cpc[c] = "receiving"
    /\ wpc' = "recv"
    /\ wres' = NoTask
    /\ got' = [got EXCEPT ![c] = Append(@, wres)]
    /\ tstate' = [tstate EXCEPT ![CurTask(c)] = "returned"]
    /\ cpc' = [cpc EXCEPT ![c] = "idle"]
    /\ lock' = IF lock = c THEN NoCaller ELSE lock
    /\ UNCHANGED <<ndisp, wtask, submitted, completed>>
    /\ WTFrame

\* The state of the mutex after a thread panicked while holding its guard.
Poisoned == -1
\* How a dispatch ended in a panic of the calling thread: the error that
\* its unwrap() met.
Failures == {"RecvError", "PoisonError"}

\* Command loop: the closure panics. The panic unwinds out of the thread's
\* closure: the tracer thread ends, dropping rx_cmd and tx_res, so both
\* channels are closed; the closure is dropped without a result.
WorkerPanic ==
    /\ wpc = "run"
    /\ wpc' = "dead"
    /\ tstate' = [tstate EXCEPT ![wtask] = "panicked"]
    /\ wtask' = NoTask
    /\ UNCHANGED <<cpc, ndisp, lock, wres, submitted, completed, got>>
    /\ WTFrame

\* A guard dropped during unwinding that leaves the mutex usable.
RecvClosed_NoPoison(c) ==
    /\ cpc[c] = "receiving"
    /\ wpc = "dead"
    /\ cpc' = [cpc EXCEPT ![c] = "RecvError"]
    /\ lock' = NoCaller
    /\ UNCHANGED <<ndisp, wpc, wtask, wres, tstate, submitted, completed, got>>
    /\ WTFrame

\* spawn: `inner.rx.recv()` on the closed channel returns Err(RecvError) and
\* unwrap() panics; the MutexGuard `inner` is dropped during the unwinding,
\* which poisons the mutex.
RecvClosed(c) ==
    /\ cpc[c] = "receiving"
    /\ wpc = "dead"
    /\ cpc' = [cpc EXCEPT ![c] = "RecvError"]
    /\ lock' = Poisoned
    /\ UNCHANGED <<ndisp, wpc, wtask, wres, tstate, submitted, completed, got>>
    /\ WTFrame

\* spawn: `self.0.lock()` on the poisoned mutex returns Err(PoisonError)
\* and unwrap() panics before anything is sent.
LockPoisoned(c) ==
    /\ cpc[c] = "idle"
    /\ ndisp[c] < MaxDispatch
    /\ lock = Poisoned
    /\ ndisp' = [ndisp EXCEPT ![c] = @ + 1]
    /\ cpc' = [cpc EXCEPT ![c] = "PoisonError"]
    /\ UNCHANGED <<lock, wpc, wtask, wres, tstate, submitted, completed, got>>
    /\ WTFrame

\* The tracer thread, as a thread that can call spawn itself.
Tracer == NumCallers + 1
Threads == Callers \cup {Tracer}

\* Command loop: the closure running on the tracer thread calls spawn on a
\* clone of the handle it captured; the call starts at `self.0.lock()`.
NestedSpawn ==
    /\ wpc = "run"
    /\ wpc' = "nested_lock"
    /\ UNCHANGED <<cpc, ndisp, lock, wtask, wres, tstate, submitted, completed, got>>
    /\ WTFrame

\* spawn on the tracer thread: `self.0.lock()` returns once nobody holds the
\* mutex; the `inner.tx.send` that follows finds no receiver, because the
\* only receiver of the channel is the tracer thread's own command loop.
NestedLock ==
    /\ wpc = "nested_lock"
    /\ LockAvailable
    /\ lock' = Tracer
    /\ wpc' = "nested_sending"
    /\ UNCHANGED <<cpc, ndisp, wtask, wres, tstate, submitted, completed, got>>
    /\ WTFrame

\* `self.0.lock().unwrap()` of spawn, on whichever thread calls it.
Lock(th) == IF th \in Callers THEN SpawnLock(th) ELSE NestedLock

WTNext ==
    \/ \E c \in Callers : SpawnLock(c)
    \/ \E c \in Callers : SpawnSend(c)
    \/ \E c \in Callers : WorkerRecv(c)
    \/ WorkerRun
    \/ \E c \in Callers : WorkerSend(c)

\* WorkerThread::new, and the dispatches through the handle it returns.
WTNewNext ==
    \/ NewSpawn
    \/ \E ok \in BOOLEAN : NewInitRuns(ok)
    \/ NewStatusReceived
    \/ \E c \in Callers : SpawnLock(c)
    \/ \E c \in Callers : SpawnSend(c)
    \/ \E c \in Callers : WorkerRecv(c)
    \/ WorkerRun
    \/ \E c \in Callers : WorkerSend(c)

\* Dispatches whose tasks may panic.
WTPanicNext ==
    \/ \E c \in Callers : SpawnLock(c)
    \/ \E c \in Callers : SpawnSend(c)
    \/ \E c \in Callers : WorkerRecv(c)
    \/ WorkerRun
    \/ \E c \in Callers : WorkerSend(c)
    \/ WorkerPanic
    \/ \E c \in Callers : RecvClosed(c)
    \/ \E c \in Callers : LockPoisoned(c)

\* Dispatches whose tasks may dispatch again on a clone of the handle.
WTNestedNext ==
    \/ \E th \in Threads : Lock(th)
    \/ \E c \in Callers : SpawnSend(c)
    \/ \E c \in Callers : WorkerRecv(c)
    \/ WorkerRun
    \/ NestedSpawn
    \/ \E c \in Callers : WorkerSend(c)

(***************************************************************************)
(* The debuggee as the breakpoint manager sees it: a text segment of       *)
(* TextLen bytes holding a straight-line program, the program counter, and *)
(* the x86-64 rule for INT3 (the trap is reported with rip one past it).   *)
(***************************************************************************)
INT3 == 204
\* ptrace PEEKDATA / POKEDATA move one machine word (libc::c_long).
WordSize == 8
NoAddr == -1

\* The debuggee's text segment: TextLen bytes mapped at TextBase.
TextBase == 16
TextLen == 16
TextAddrs == TextBase..(TextBase + TextLen - 1)
\* Instruction starts of the debuggee's program and their lengths; the
\* instruction at ExitInsn leaves the process.
InsnLen == (TextBase :> 1) @@ (TextBase + 1 :> 2) @@ (TextBase + 3 :> 1)
           @@ (TextBase + 4 :> 2)
ExitInsn == TextBase + 4
\* The bytes of the program as loaded; no byte of it is INT3.
OrigText == [a \in TextAddrs |-> 16 + (a - TextBase)]

\* Addresses the client sets breakpoints at: instruction starts, and one
\* address whose word runs off the mapped segment.
BpAddrs == {TextBase, TextBase + 1, TextBase + 3, TextBase + TextLen - 4}
\* Identities of the on_trap closures.
Callbacks == {"cb1", "cb2"}

WordMapped(m, a) == \A i \in 0..(WordSize - 1) : (a + i) \in DOMAIN m
ReadWord(m, a) == [i \in 0..(WordSize - 1) |-> m[a + i]]
WriteWord(m, a, w) ==
    [x \in DOMAIN m |-> IF x \in a..(a + WordSize - 1) THEN w[x - a] ELSE m[x]]
\* A patch that puts b into the second byte of the word as well.
WithLowByte_TwoBytes(w, b) == [w EXCEPT ![0] = b, ![1] = b]

\* `(word & !0xff) | b`: on little-endian x86-64 the low byte of the word is
\* the byte at the word's address.
WithLowByte(w, b) == [w EXCEPT ![0] = b]
LowByte(w) == w[0]

\* One instruction of the debuggee at program counter p, as the set of
\* possible outcomes. Bytes that are not an intact instruction start decode
\* in a way the model does not know: the process either faults in place or
\* moves on by one byte.
StepOutcomes(m, p) ==
    IF p \notin DOMAIN m
    THEN {[rip |-> p, exec |-> {}, st |-> "trapped", hit |-> NoAddr]}
    ELSE IF m[p] = INT3
    THEN {[rip |-> p + 1, exec |-> {}, st |-> "trapped", hit |-> p]}
    ELSE IF p \in DOMAIN InsnLen
            /\ \A i \in 0..(InsnLen[p] - 1) : m[p + i] = OrigText[p + i]
    THEN IF p = ExitInsn
         THEN {[rip |-> p, exec |-> {p}, st |-> "exited", hit |-> NoAddr]}
         ELSE {[rip |-> p + InsnLen[p], exec |-> {p}, st |-> "running", hit |-> NoAddr]}
    ELSE {[rip |-> p, exec |-> {}, st |-> "trapped", hit |-> NoAddr],
          [rip |-> p + 1, exec |-> {}, st |-> "running", hit |-> NoAddr]}

DbgInit ==
    /\ mem = OrigText
    /\ rip = TextBase
    /\ dstate = "stopped"
    /\ hit = NoAddr
    /\ execSince = {}

(***************************************************************************)
(* LinuxTarget: set_breakpoint, remove_breakpoint, unpause, next_event.    *)
(* Every ptrace / waitpid call may return an error; `f` names the first    *)
(* call of the operation that does (0: none).                              *)
(***************************************************************************)
NoEntryTable == <<>>
NoStepOver == [addr |-> NoAddr, wasHit |-> FALSE]

Insert(bps, a, e) == [x \in (DOMAIN bps) \cup {a} |-> IF x = a THEN e ELSE bps[x]]
Remove(bps, a) == [x \in (DOMAIN bps) \ {a} |-> bps[x]]

\* A process that has exited answers no ptrace request.
Gone(st) == st = "exited"

\* set_breakpoint(Breakpoint { addr: a, on_trap: cb }) on table bps and
\* memory m; calls: 1 ptrace::read, 2 ptrace::write.
SetBp(bps, m, st, a, cb, f) ==
    IF f = 1 \/ Gone(st) \/ ~WordMapped(m, a)
    THEN [bps |-> bps, mem |-> m, res |-> "Err"]
    ELSE LET word == ReadWord(m, a)
             ins == Insert(bps, a, [replaced_byte |-> LowByte(word), on_trap |-> cb])
         IN  IF a \in DOMAIN bps
             THEN [bps |-> ins, mem |-> m, res |-> "Panic"]
             ELSE IF f = 2
             THEN [bps |-> ins, mem |-> m, res |-> "Err"]
             ELSE [bps |-> ins, mem |-> WriteWord(m, a, WithLowByte(word, INT3)),
                   res |-> "Ok"]

\* remove_breakpoint that drops the entry and leaves the INT3 in place.
RemoveBp_NoRestore(bps, m, st, a, f) ==
    IF a \notin DOMAIN bps
    THEN [bps |-> bps, mem |-> m, res |-> "Err", cb |-> "none"]
    ELSE [bps |-> Remove(bps, a), mem |-> m,
          res |-> IF f = 0 THEN "Ok" ELSE "Err",
          cb |-> IF f = 0 THEN bps[a].on_trap ELSE "none"]

\* remove_breakpoint(a); calls: 1 ptrace::read, 2 ptrace::write. `cb` is the
\* callback handed back in the returned Breakpoint.
RemoveBp(bps, m, st, a, f) ==
    IF a \notin DOMAIN bps
    THEN [bps |-> bps, mem |-> m, res |-> "Err", cb |-> "none"]
    ELSE LET e == bps[a]
             rest == Remove(bps, a)
         IN  IF f = 1 \/ f = 2 \/ Gone(st) \/ ~WordMapped(m, a)
             THEN [bps |-> rest, mem |-> m, res |-> "Err", cb |-> "none"]
             ELSE [bps |-> rest,
                   mem |-> WriteWord(m, a, WithLowByte(ReadWord(m, a), e.replaced_byte)),
                   res |-> "Ok", cb |-> e.on_trap]

BPInit ==
    /\ breakpoints = NoEntryTable
    /\ stepOver = NoStepOver

\* LinuxTarget::launch has returned the stopped child.
CallInit ==
    /\ crashed = FALSE
    /\ ret = [op |-> "launch", res |-> "Ok"]

CanCall == ~crashed /\ dstate = "stopped"

set_breakpoint(a, cb, f) ==
    /\ CanCall
    /\ LET r == SetBp(breakpoints, mem, dstate, a, cb, f)
       IN  /\ breakpoints' = r.bps
           /\ mem' = r.mem
           /\ crashed' = (r.res = "Panic")
           /\ ret' = [op |-> "set_breakpoint", res |-> r.res, addr |-> a,
                      cb |-> cb, before |-> mem]
    /\ stepOver' = NoStepOver
    /\ UNCHANGED <<rip, dstate, hit, execSince>>
    /\ BPFrame

remove_breakpoint(a, f) ==
    /\ CanCall
    /\ LET r == RemoveBp(breakpoints, mem, dstate, a, f)
       IN  /\ breakpoints' = r.bps
           /\ mem' = r.mem
           /\ ret' = [op |-> "remove_breakpoint", res |-> r.res, addr |-> a,
                      cb |-> r.cb]
    /\ stepOver' = NoStepOver
    /\ UNCHANGED <<rip, dstate, hit, execSince, crashed>>
    /\ BPFrame

\* A resume that steps over the breakpoint at the program counter itself.
StepOverAddr_AtPC(bps, p) == IF p \in DOMAIN bps THEN p ELSE NoAddr

\* `self.breakpoints.get(&(regs.rip as usize - 1)).is_some()`: the address
\* of the breakpoint unpause steps over, if the table has one at rip - 1.
StepOverAddr(bps, p) == IF (p - 1) \in DOMAIN bps THEN p - 1 ELSE NoAddr

\* unpause(), given the first failing call f: 1 getregs, 2/3 the read and
\* write of remove_breakpoint, 4 ptrace::step, 5 waitpid, 6/7 the read and
\* write of set_breakpoint, 8 setregs, 9 ptrace::cont. The result is the set
\* of states it can leave (one per outcome of the single step).
UnpauseResults(bps, m, p, st, f) ==
    LET a == StepOverAddr(bps, p)
        Out(b, mm, pp, ss, ex, res, so, stepped) ==
            [bps |-> b, mem |-> mm, rip |-> pp, st |-> ss, exec |-> ex,
             res |-> res, stepOver |-> so, stepped |-> stepped]
        Cont(b, mm, pp, ss, ex, so, stepped) ==
            IF f = 9 \/ Gone(ss)
            THEN Out(b, mm, pp, ss, ex, "Err", NoStepOver, stepped)
            ELSE Out(b, mm, pp, "running", ex, "Ok", so, stepped)
    IN
    IF f = 1 \/ Gone(st)
    THEN {Out(bps, m, p, st, {}, "Err", NoStepOver, FALSE)}
    ELSE IF a = NoAddr
    THEN {Cont(bps, m, p, st, {}, NoStepOver, FALSE)}
    ELSE
    LET rm == RemoveBp(bps, m, st, a, IF f = 2 THEN 1 ELSE IF f = 3 THEN 2 ELSE 0)
    IN
    IF rm.res # "Ok"
    THEN {Out(rm.bps, rm.mem, p, st, {}, "Err", NoStepOver, FALSE)}
    ELSE IF f = 4
    THEN {Out(rm.bps, rm.mem, p, st, {}, "Err", NoStepOver, FALSE)}
    ELSE
    { LET \* the debuggee after the single step, stopped again unless it exited
          ss == IF o.st = "exited" THEN "exited" ELSE "stopped"
          sb == SetBp(rm.bps, rm.mem, ss, a, rm.cb,
                      IF f = 6 THEN 1 ELSE IF f = 7 THEN 2 ELSE 0)
      IN
      IF f = 5
      THEN Out(rm.bps, rm.mem, o.rip, ss, o.exec, "Err", NoStepOver, TRUE)
      ELSE IF sb.res # "Ok"
      THEN Out(sb.bps, sb.mem, o.rip, ss, o.exec, sb.res, NoStepOver, TRUE)
      ELSE IF f = 8 \/ Gone(ss)
      THEN Out(sb.bps, sb.mem, o.rip, ss, o.exec, "Err", NoStepOver, TRUE)
      ELSE Cont(sb.bps, sb.mem, p - 1, ss, o.exec, [addr |-> a, entry |-> bps[a]], TRUE)
      : o \in StepOutcomes(rm.mem, p) }

UnpauseCalls == 0..9

unpause(f) ==
    /\ CanCall
    /\ \E r \in UnpauseResults(breakpoints, mem, rip, dstate, f) :
          /\ breakpoints' = r.bps
          /\ mem' = r.mem
          /\ rip' = r.rip
          /\ dstate' = r.st
          /\ execSince' = r.exec
          /\ hit' = IF r.stepped \/ r.res = "Ok" THEN NoAddr ELSE hit
          /\ crashed' = (r.res = "Panic")
          /\ ret' = [op |-> "unpause", res |-> r.res]
          /\ stepOver' = IF r.stepOver.addr = NoAddr THEN NoStepOver
                          ELSE [addr |-> r.stepOver.addr, entry |-> r.stepOver.entry,
                                wasHit |-> (hit = r.stepOver.addr)]
    /\ BPFrame

\* next_event(): waitpid returns once the running debuggee has stopped.
next_event ==
    /\ ~crashed
    /\ dstate = "trapped"
    /\ dstate' = "stopped"
    /\ ret' = [op |-> "next_event", res |-> "Ok"]
    /\ UNCHANGED <<mem, rip, hit, execSince, breakpoints, crashed, stepOver>>
    /\ BPFrame

\* The debuggee, while running, executes its next instruction.
DebuggeeRun ==
    /\ dstate = "running"
    /\ \E o \in StepOutcomes(mem, rip) :
          /\ rip' = o.rip
          /\ dstate' = o.st
          /\ hit' = o.hit
          /\ execSince' = execSince \cup o.exec
    /\ UNCHANGED <<mem, breakpoints, crashed, ret, stepOver>>
    /\ BPFrame

(***************************************************************************)
(* ReadMemory: a batch of reads from the debuggee, applied with one        *)
(* process_vm_readv call.                                                  *)
(***************************************************************************)
\* The remote addresses of the batch, in the order of the iovec array.
RECURSIVE RemoteBytes(_)
RemoteBytes(read_ops) ==
    IF Len(read_ops) = 0 THEN <<>>
    ELSE [i \in 1..read_ops[1].len |-> read_ops[1].remote_base + i - 1]
         \o RemoteBytes(Tail(read_ops))

\* A transfer that is all or nothing: no byte is copied when any address of
\* the batch cannot be read.
Copied_AllOrNothing(m, addrs) ==
    IF \A i \in 1..Len(addrs) : addrs[i] \in DOMAIN m
    THEN [i \in 1..Len(addrs) |-> m[addrs[i]]]
    ELSE <<>>

\* process_vm_readv copies in order until the first address it cannot read.
RECURSIVE Copied(_, _)
Copied(m, addrs) ==
    IF Len(addrs) = 0 \/ addrs[1] \notin DOMAIN m THEN <<>>
    ELSE <<m[addrs[1]]>> \o Copied(m, Tail(addrs))

\* The return value of the call: the number of bytes copied, or -1 when it
\* faulted before copying any.
ProcessVmReadv(m, read_ops) ==
    IF Len(RemoteBytes(read_ops)) > 0 /\ Len(Copied(m, RemoteBytes(read_ops))) = 0
    THEN -1
    ELSE Len(Copied(m, RemoteBytes(read_ops)))

\* The local buffers of the batch as the caller initialised them, in the
\* order of the iovec array.
RECURSIVE LocalBuffers(_, _)
LocalBuffers(read_ops, fill) ==
    IF Len(read_ops) = 0 THEN <<>>
    ELSE [i \in 1..read_ops[1].len |-> fill] \o LocalBuffers(Tail(read_ops), fill)

\* The local buffers after the call: the copied bytes, then what was there.
LocalAfter(before, copied) == copied \o SubSeq(before, Len(copied) + 1, Len(before))

\* ReadMemory::apply on the batch read_ops: Err only for a return of -1.
ReadMemory_apply(read_ops, fill) ==
    /\ ~crashed
    /\ ret' = [op |-> "ReadMemory::apply",
               res |-> IF ProcessVmReadv(mem, read_ops) = -1 THEN "Err" ELSE "Ok",
               read_ops |-> read_ops,
               local |-> Copied(mem, RemoteBytes(read_ops)),
               before |-> LocalBuffers(read_ops, fill),
               after |-> LocalAfter(LocalBuffers(read_ops, fill),
                                    Copied(mem, RemoteBytes(read_ops)))]
    /\ UNCHANGED <<wtVars, dbgVars, bpVars, crashed, injVars>>

\* The reads a client batches: inside the mapped text, across its end,
\* across its start and wholly outside it.
ReadOps ==
    [remote_base : {TextBase - 4, TextBase, TextBase + 4, TextBase + TextLen - 4,
                    TextBase + TextLen},
     len : {4, 8}]
ReadPlans == {<<o>> : o \in ReadOps} \cup {<<o1, o2>> : o1 \in ReadOps, o2 \in ReadOps}

\* What the caller's variables hold before the read ([0u32; 2] in the tests).
LocalFills == {0, 255}

ReadNext == \E read_ops \in ReadPlans, fill \in LocalFills : ReadMemory_apply(read_ops, fill)

(***************************************************************************)
(* ParsedDwarf: the symbol table of the debuggee's object file, sorted by  *)
(* address when it is built, and the two lookups on it.                    *)
(***************************************************************************)
\* Option values: None, and Some(x).
None == <<>>
Some(x) == <<x>>

\* `symbols.binary_search_by(|sym| sym.address().cmp(&addr))`, as the set of
\* results it may return: Ok(index) for any index of a symbol at addr, else
\* Err(index) with the index where addr would be inserted. Indices count
\* from 0.
BinarySearch(symbols, addr) ==
    IF \E i \in 1..Len(symbols) : symbols[i].address = addr
    THEN {[ok |-> TRUE, index |-> i - 1] : i \in {j \in 1..Len(symbols) : symbols[j].address = addr}}
    ELSE {[ok |-> FALSE,
           index |-> Cardinality({j \in 1..Len(symbols) : symbols[j].address < addr})]}

\* `symbols.get(index + 1).map(|sym| sym.address()) <= Some(addr)`, by the
\* ordering of Option, in which None is less than every Some.
NextNotAbove(symbols, index, addr) ==
    IF index + 1 >= Len(symbols) THEN TRUE
    ELSE symbols[index + 2].address <= addr

\* The rest of get_address_symbol once the index of the symbol is known.
SymbolAt(symbols, index, addr) ==
    IF NextNotAbove(symbols, index, addr) THEN None
    ELSE Some(symbols[index + 1].name)

\* get_address_symbol(addr) on the table, as the set of its possible results.
GetAddressSymbol(symbols, addr) ==
    {IF r.ok THEN SymbolAt(symbols, r.index, addr)
     ELSE IF r.index = 0 THEN None
     ELSE SymbolAt(symbols, r.index - 1, addr) : r \in BinarySearch(symbols, addr)}

\* symbol_names: filled in table order, so the last symbol of a name wins.
GetSymbolAddress(symbols, name) ==
    IF \E i \in 1..Len(symbols) : symbols[i].name = name
    THEN Some(symbols[CHOOSE i \in 1..Len(symbols) :
                        /\ symbols[i].name = name
                        /\ \A j \in (i + 1)..Len(symbols) : symbols[j].name # name].address)
    ELSE None

get_address_symbol(symbols, addr) ==
    /\ \E res \in GetAddressSymbol(symbols, addr) :
          ret' = [op |-> "get_address_symbol", symbols |-> symbols, addr |-> addr,
                  res |-> res]
    /\ UNCHANGED <<wtVars, dbgVars, bpVars, crashed, injVars>>

get_symbol_address(symbols, name) ==
    /\ ret' = [op |-> "get_symbol_address", symbols |-> symbols, name |-> name,
               res |-> GetSymbolAddress(symbols, name)]
    /\ UNCHANGED <<wtVars, dbgVars, bpVars, crashed, injVars>>

\* The symbol tables ParsedDwarf::new builds: up to MaxSymbols symbols of
\* the text, sorted by address (aliases share an address), the i-th named
\* after its place.
SymbolNames == [k \in 1..MaxSymbols |-> <<"sym", k>>]
SymbolAddrs == {TextBase, TextBase + 4, TextBase + 8}
SymbolTables ==
    {t \in UNION {[1..n -> [address : SymbolAddrs, name : {SymbolNames[k] : k \in 1..MaxSymbols}]] :
                    n \in 1..MaxSymbols} :
        /\ \A i \in 1..Len(t) : t[i].name = SymbolNames[i]
        /\ \A i \in 1..(Len(t) - 1) : t[i].address <= t[i + 1].address}
\* The addresses looked up: below, at, between and above the symbols.
LookupAddrs == {TextBase - 2, TextBase, TextBase + 2, TextBase + 4, TextBase + 8, TextBase + 10}

SymNext ==
    \/ \E symbols \in SymbolTables, addr \in LookupAddrs : get_address_symbol(symbols, addr)
    \/ \E symbols \in SymbolTables, k \in 1..MaxSymbols :
          get_symbol_address(symbols, SymbolNames[k])

BPNext ==
    \/ \E a \in BpAddrs, cb \in Callbacks, f \in 0..2 : set_breakpoint(a, cb, f)
    \/ \E a \in BpAddrs, f \in 0..2 : remove_breakpoint(a, f)
    \/ \E f \in UnpauseCalls : unpause(f)
    \/ next_event
    \/ DebuggeeRun

(***************************************************************************)
(* 64-bit values as eight little-endian bytes, so that address arithmetic  *)
(* wraps at 2^64 as u64 / i64 arithmetic does in the code.                 *)
(***************************************************************************)
RECURSIVE LE(_, _)
\* The k low bytes of integer n (two's complement for negative n).
LE(n, k) == IF k = 0 THEN <<>> ELSE <<n % 256>> \o LE(n \div 256, k - 1)

RECURSIVE AddBytes(_, _, _)
AddBytes(x, y, carry) ==
    IF Len(x) = 0 THEN <<>>
    ELSE LET t == x[1] + y[1] + carry
         IN  <<t % 256>> \o AddBytes(Tail(x), Tail(y), t \div 256)

\* A sum that drops the carries between the bytes.
Add64_NoCarry(x, y) == [i \in 1..Len(x) |-> (x[i] + y[i]) % 256]

\* Wrapping 64-bit sum and difference.
Add64(x, y) == AddBytes(x, y, 0)
Not64(x) == [i \in 1..Len(x) |-> 255 - x[i]]
Sub64(x, y) == AddBytes(x, Not64(y), 1)
\* `v as u32` / `v as i32`: the low four bytes.
Low32(x) == SubSeq(x, 1, 4)

(***************************************************************************)
(* Memory: the bump allocator of one protection class, and the pages it    *)
(* maps in the debuggee.                                                   *)
(***************************************************************************)
EXECUTABLE_DATA_ALIGNMENT == 16
WRITABLE_DATA_ALIGNMENT == 8
READONLY_DATA_ALIGNMENT == 1

\* Size of one page of the allocators (scaled down from 4096).
PageSize == 32
\* mmap places the allocators' pages upwards from MapBase.
MapBase == 64
\* Number of default-sized pages the debuggee's address space has room for.
MaxPages == 5
MapLimit == MapBase + MaxPages * PageSize

Classes == {"code", "readonly", "readwrite"}
\* Option<u64>::None for an alignment.
NoAlign == 0

Max(a, b) == IF a >= b THEN a ELSE b
\* An allocator that does not round the offset up to the alignment.
RoundUp_NoRounding(x, al) == x

\* Step 2 of allocate: the offset rounded up to a multiple of al.
RoundUp(x, al) == IF x % al = 0 THEN x ELSE x + (al - (x % al))
CeilTo(size, ps) == ((size + ps - 1) \div ps) * ps

NextMapBase(mps) ==
    IF Len(mps) = 0 THEN MapBase ELSE mps[Len(mps)].base + mps[Len(mps)].len

\* Map `len` fresh zero bytes with protection class `cls` in the debuggee.
MapFresh(mps, m, len, cls) ==
    LET base == NextMapBase(mps)
    IN  IF base + len > MapLimit
        THEN [ok |-> FALSE, base |-> NoAddr, maps |-> mps, mem |-> m]
        ELSE [ok |-> TRUE, base |-> base,
              maps |-> Append(mps, [base |-> base, len |-> len, prot |-> cls]),
              mem |-> [x \in (DOMAIN m) \cup (base..(base + len - 1)) |->
                          IF x \in DOMAIN m THEN m[x] ELSE 0]]

NewMemory == [page |-> NoAddr, offset |-> 0]

\* Memory::allocate(size, align) of the allocator `al` of class `cls`.
Allocate(cls, al, mps, m, size, align) ==
    LET first == IF al.page = NoAddr
                 THEN MapFresh(mps, m, PageSize, cls)
                 ELSE [ok |-> TRUE, base |-> al.page, maps |-> mps, mem |-> m]
        off == RoundUp(al.offset, align)
    IN  IF ~first.ok
        THEN [res |-> "Err", addr |-> NoAddr, al |-> al, maps |-> mps, mem |-> m]
        ELSE IF off + size > PageSize
        THEN LET fresh == MapFresh(first.maps, first.mem,
                                   Max(PageSize, CeilTo(size, PageSize)), cls)
             IN  IF ~fresh.ok
                 THEN [res |-> "Err", addr |-> NoAddr,
                       al |-> [page |-> first.base, offset |-> off],
                       maps |-> first.maps, mem |-> first.mem]
                 ELSE [res |-> "Ok", addr |-> fresh.base,
                       al |-> [page |-> fresh.base, offset |-> size],
                       maps |-> fresh.maps, mem |-> fresh.mem]
        ELSE [res |-> "Ok", addr |-> first.base + off,
              al |-> [page |-> first.base, offset |-> off + size],
              maps |-> first.maps, mem |-> first.mem]

(***************************************************************************)
(* WriteMemory: write_slice(bytes, addr).apply() and write(&value, addr).  *)
(***************************************************************************)
RangeMapped(m, addr, n) == \A i \in 0..(n - 1) : (addr + i) \in DOMAIN m
WriteSlice(m, addr, bytes) ==
    [x \in DOMAIN m |->
        IF x \in addr..(addr + Len(bytes) - 1) THEN bytes[x - addr + 1] ELSE m[x]]

(***************************************************************************)
(* InjectionContext: the three allocators behind the tracer actor.         *)
(***************************************************************************)
\* The state an InjectionContext operation works on and leaves.
Ctx == [alloc |-> alloc, maps |-> maps, mem |-> mem, allocs |-> allocs]

\* An allocation of class cls on context cx; `align` is already defaulted.
CtxAllocate(cx, cls, size, align) ==
    LET a == Allocate(cls, cx.alloc[cls], cx.maps, cx.mem, size, align)
    IN  [res |-> a.res, addr |-> a.addr,
         cx |-> [alloc |-> [cx.alloc EXCEPT ![cls] = a.al],
                 maps |-> a.maps,
                 mem |-> a.mem,
                 allocs |-> IF a.res = "Ok"
                            THEN cx.allocs \cup {[cls |-> cls, addr |-> a.addr,
                                                 size |-> size, align |-> align]}
                            ELSE cx.allocs]]

UnwrapOr(opt, default) == IF opt = NoAlign THEN default ELSE opt

\* allocate_code reserving nothing: the size is not passed on.
allocate_code_with_NoSize(cx, size, align) ==
    CtxAllocate(cx, "code", 0, UnwrapOr(align, EXECUTABLE_DATA_ALIGNMENT))

allocate_code_with(cx, size, align) ==
    CtxAllocate(cx, "code", size, UnwrapOr(align, EXECUTABLE_DATA_ALIGNMENT))
allocate_readonly_with(cx, size, align) ==
    CtxAllocate(cx, "readonly", size, UnwrapOr(align, READONLY_DATA_ALIGNMENT))
allocate_readwrite_with(cx, size, align) ==
    CtxAllocate(cx, "readwrite", size, UnwrapOr(align, WRITABLE_DATA_ALIGNMENT))

\* allocate_stack(size, return_addr); `wfail` says the debuggee write fails.
\* The rest of allocate_stack once `readwrite.allocate(target, size, 16)`
\* has returned a: the return address is written WordSize below the end.
StackOn(a, slot, return_addr, wfail) ==
    IF a.res # "Ok"
    THEN [res |-> "Err", top |-> NoAddr, base |-> NoAddr, cx |-> a.cx]
    ELSE IF wfail \/ ~RangeMapped(a.cx.mem, slot, WordSize)
    THEN [res |-> "Err", top |-> NoAddr, base |-> a.addr, cx |-> a.cx]
    ELSE [res |-> "Ok", top |-> slot, base |-> a.addr,
          cx |-> [a.cx EXCEPT !.mem = WriteSlice(a.cx.mem, slot,
                                                 LE(return_addr, WordSize))]]

StackAt(a, size, return_addr, wfail) ==
    StackOn(a, a.addr + size - WordSize, return_addr, wfail)

allocate_stack_with(cx, size, return_addr, wfail) ==
    StackAt(CtxAllocate(cx, "readwrite", size, 16), size, return_addr, wfail)

(***************************************************************************)
(* InjectionModule: declarations, compiled objects, relocation, finalize.  *)
(***************************************************************************)
\* The client's declarations (ModuleDeclarations): dense ids, one shape each.
FuncIds == 1..3
DataIds == 1..3
FuncDecl == [id \in FuncIds |->
    IF id = 1 THEN [name |-> "f1", linkage |-> "Local"]
    ELSE IF id = 2 THEN [name |-> "f2", linkage |-> "Export"]
    ELSE [name |-> "ext_fn", linkage |-> "Import"]]
DataDecl == [id \in DataIds |->
    IF id = 1 THEN [name |-> "d1", linkage |-> "Local", writable |-> TRUE, tls |-> FALSE]
    ELSE IF id = 2 THEN [name |-> "d2", linkage |-> "Local", writable |-> FALSE, tls |-> FALSE]
    ELSE [name |-> "msg", linkage |-> "Import", writable |-> FALSE, tls |-> FALSE]]
\* A linkage test that lets imports be defined.
IsDefinable_Always(linkage) == TRUE

\* Linkage::is_definable
IsDefinable(linkage) == linkage # "Import"

\* lookup_symbol: the debuggee address of each imported name.
LookupSymbol(name) ==
    IF name = "msg" THEN <<52, 18, 0, 0, 0, 0, 255, 127>>
    ELSE IF name = "ext_fn" THEN LE(TextBase + 1, 8)
    ELSE IF name = "memcpy" THEN LE(TextBase + 3, 8)
    ELSE LE(0, 8)
\* libcall_names: the name of a runtime helper.
LibcallName(tag) == IF tag = "Memcpy" THEN "memcpy" ELSE "unknown_libcall"

\* An object of the module: <<"func", id>> or <<"data", id>>.
FuncObj(id) == <<"func", id>>
DataObj(id) == <<"data", id>>

\* A get_definition that asks lookup_symbol for every name.
GetDefinition_AlwaysLookup(fs, ds, name) ==
    IF name[1] = "func" THEN LookupSymbol(FuncDecl[name[2]].name)
    ELSE IF name[1] = "data" THEN LookupSymbol(DataDecl[name[2]].name)
    ELSE LookupSymbol(LibcallName(name[2]))

\* get_definition(name) against the tables fs (functions) and ds (data).
GetDefinition(fs, ds, name) ==
    IF name[1] = "func"
    THEN IF name[2] \in DOMAIN fs THEN LE(fs[name[2]].region, 8)
         ELSE LookupSymbol(FuncDecl[name[2]].name)
    ELSE IF name[1] = "data"
    THEN IF name[2] \in DOMAIN ds THEN LE(ds[name[2]].region, 8)
         ELSE LookupSymbol(DataDecl[name[2]].name)
    ELSE LookupSymbol(LibcallName(name[2]))

\* The match arms of get_definition that return a region: the name is a
\* user symbol whose table entry is Some.
HasCompiled(fs, ds, name) ==
    \/ name[1] = "func" /\ name[2] \in DOMAIN fs
    \/ name[1] = "data" /\ name[2] \in DOMAIN ds
\* The string the other arms pass to lookup_symbol.
LookupSymbolName(name) ==
    IF name[1] = "func" THEN FuncDecl[name[2]].name
    ELSE IF name[1] = "data" THEN DataDecl[name[2]].name
    ELSE LibcallName(name[2])

\* A patch that lands one byte after the offset of the relocation.
PatchAt_OneLater(bytes, off, v) ==
    [i \in 1..Len(bytes) |->
        IF i > off + 1 /\ i <= off + 1 + Len(v) THEN v[i - off - 1] ELSE bytes[i]]

\* write_unaligned of the bytes v at offset off of the buffer.
PatchAt(bytes, off, v) ==
    [i \in 1..Len(bytes) |->
        IF i > off /\ i <= off + Len(v) THEN v[i - off] ELSE bytes[i]]

\* One relocation applied to the buffer of an object placed at pos.
ApplyReloc(fs, ds, bytes, pos, r) ==
    LET base == GetDefinition(fs, ds, r.name)
        what == Add64(base, r.addend)
    IN  IF r.reloc = "Abs4" THEN PatchAt(bytes, r.offset, Low32(what))
        ELSE IF r.reloc = "Abs8" THEN PatchAt(bytes, r.offset, what)
        ELSE \* X86PCRel4 | X86CallPCRel4
             PatchAt(bytes, r.offset, Low32(Sub64(what, LE(pos + r.offset, 8))))

\* The sign bit of an i64 / isize.
Negative(x) == x[8] >= 128
\* x + y = sum, and x - y = diff, left the range of the signed type.
AddOverflows(x, y, sum) == Negative(x) = Negative(y) /\ Negative(sum) # Negative(x)
SubOverflows(x, y, diff) == Negative(x) # Negative(y) /\ Negative(diff) # Negative(x)
\* `(base as i64) + (addend as i64)` and the isize subtraction of the
\* PC-relative kinds leave the range of the type: a build with overflow
\* checks panics there, a build without them wraps.
RelocOverflows(fs, ds, pos, r) ==
    \/ AddOverflows(GetDefinition(fs, ds, r.name), r.addend,
                    Add64(GetDefinition(fs, ds, r.name), r.addend))
    \/ /\ r.reloc \in {"X86PCRel4", "X86CallPCRel4"}
       /\ SubOverflows(Add64(GetDefinition(fs, ds, r.name), r.addend),
                       LE(pos + r.offset, 8),
                       Sub64(Add64(GetDefinition(fs, ds, r.name), r.addend),
                             LE(pos + r.offset, 8)))

\* The names get_definition hands to lookup_symbol for these relocations.
LookupCalls(fs, ds, relocs) ==
    {LookupSymbolName(relocs[i].name) : i \in
        {j \in 1..Len(relocs) : ~HasCompiled(fs, ds, relocs[j].name)}}

RECURSIVE PerformRelocations(_, _, _, _, _)
PerformRelocations(fs, ds, bytes, pos, relocs) ==
    IF Len(relocs) = 0 THEN bytes
    ELSE PerformRelocations(fs, ds, ApplyReloc(fs, ds, bytes, pos, relocs[1]),
                            pos, Tail(relocs))

\* The module state finalize works on.
Mod == [functions |-> functions, data_objects |-> data_objects, mem |-> mem,
        patched |-> patched, written |-> written, done |-> <<>>,
        failed |-> <<>>, looked |-> {}, outside |-> {}, fault |-> FALSE,
        res |-> "Ok"]

\* The number of bytes write_unaligned stores for a relocation.
RelocWidth(r) == IF r.reloc = "Abs8" THEN 8 ELSE 4

\* `debug_assert!((offset as usize) < bytes.len())` fails for some record
\* (builds with debug assertions only).
OffsetAsserted(bytes, relocs) ==
    \E k \in 1..Len(relocs) : relocs[k].offset >= Len(bytes)

\* The records the loop reaches: all of them, or in a build with debug
\* assertions those before the first one whose assertion fails.
RECURSIVE AppliedRelocs(_, _, _)
AppliedRelocs(bytes, relocs, checked) ==
    IF Len(relocs) = 0 \/ (checked /\ relocs[1].offset >= Len(bytes)) THEN <<>>
    ELSE <<relocs[1]>> \o AppliedRelocs(bytes, Tail(relocs), checked)

\* The positions (from 1) past the end of the buffer that the stores of
\* perform_relocations reach: `at` is not checked against the width.
OutsideWrites(bytes, relocs) ==
    UNION {{i \in (relocs[k].offset + 1)..(relocs[k].offset + RelocWidth(relocs[k])) :
               i > Len(bytes)} : k \in 1..Len(relocs)}

\* Marking the object finalized before the write is attempted.
MarkFinalized(c) == [c EXCEPT !.finalized = TRUE, !.bytes = <<>>]

\* The table of the module state md that holds object o, and md with the
\* entry of o replaced.
TableOf(md, o) == IF o[1] = "func" THEN md.functions ELSE md.data_objects
WithEntry(md, o, e) ==
    IF o[1] = "func" THEN [md EXCEPT !.functions[o[2]] = e]
    ELSE [md EXCEPT !.data_objects[o[2]] = e]

\* The write that ends finalize_function / finalize_data: md.patched[o] is
\* the relocated buffer of the object c.
WriteObject(md, o, c, wfail, checked) ==
    IF checked /\ OffsetAsserted(c.bytes, c.relocs)
    THEN [md EXCEPT !.res = "Panic", !.failed = o]
    ELSE IF md.fault /\ OutsideWrites(c.bytes, c.relocs) # {}
    THEN [md EXCEPT !.res = "Crash", !.failed = o]
    ELSE IF checked /\ \E i \in 1..Len(c.relocs) :
                     RelocOverflows(md.functions, md.data_objects, c.region, c.relocs[i])
    THEN [md EXCEPT !.res = "Panic", !.failed = o]
    ELSE IF wfail \/ ~RangeMapped(md.mem, c.region, Len(md.patched[o]))
    THEN [md EXCEPT !.res = "Err", !.failed = o]
    ELSE [md EXCEPT !.mem = WriteSlice(md.mem, c.region, md.patched[o]),
                    !.written = Append(md.written, o),
                    !.done = Append(md.done, o)]

\* perform_relocations on the bytes taken out of c, in a module state whose
\* entry for o is already marked finalized.
Relocate(md, o, c, wfail, checked) ==
    WriteObject([md EXCEPT
                    !.patched = Insert(md.patched, o,
                        PerformRelocations(md.functions, md.data_objects,
                                           c.bytes, c.region, c.relocs)),
                    !.looked = md.looked \cup
                        LookupCalls(md.functions, md.data_objects, c.relocs),
                    !.outside = md.outside \cup
                        {<<o, i>> : i \in OutsideWrites(c.bytes,
                                               AppliedRelocs(c.bytes, c.relocs, checked))}],
                o, c, wfail, checked)

\* finalize_function / finalize_data of object o on module state md; `wfail`
\* says the debuggee write fails, `checked` that the build checks overflow.
FinalizeObject(md, o, wfail, checked) ==
    IF o[2] \notin DOMAIN TableOf(md, o) \/ TableOf(md, o)[o[2]].finalized
    THEN [md EXCEPT !.res = "Panic", !.failed = o]
    ELSE Relocate(WithEntry(md, o, MarkFinalized(TableOf(md, o)[o[2]])),
                  o, TableOf(md, o)[o[2]], wfail, checked)

\* Loops that walk the taken lists from their last element to their first.
RECURSIVE FinalizeList_LastFirst(_, _, _, _, _)
FinalizeList_LastFirst(md, objs, n, failAt, checked) ==
    IF Len(objs) = 0 THEN md
    ELSE LET next == FinalizeObject(md, objs[Len(objs)], n = failAt, checked)
         IN  IF next.res # "Ok" THEN next
             ELSE FinalizeList_LastFirst(next, SubSeq(objs, 1, Len(objs) - 1),
                                         n + 1, failAt, checked)

\* The loops of finalize_all over the taken lists, as one list of objects;
\* the write of the failAt-th object processed fails (0: none does).
RECURSIVE FinalizeList(_, _, _, _, _)
FinalizeList(md, objs, n, failAt, checked) ==
    IF Len(objs) = 0 THEN md
    ELSE LET next == FinalizeObject(md, objs[1], n = failAt, checked)
         IN  IF next.res # "Ok" THEN next
             ELSE FinalizeList(next, Tail(objs), n + 1, failAt, checked)

PendingObjects ==
    [i \in 1..Len(functions_to_finalize) |-> FuncObj(functions_to_finalize[i])]
    \o [i \in 1..Len(data_objects_to_finalize) |-> DataObj(data_objects_to_finalize[i])]

InjInit ==
    /\ ipc = "init"
    /\ alloc = [cls \in Classes |-> NewMemory]
    /\ maps = <<>>
    /\ allocs = {}
    /\ nraw = 0
    /\ functions = <<>>
    /\ data_objects = <<>>
    /\ functions_to_finalize = <<>>
    /\ data_objects_to_finalize = <<>>
    /\ breakpoint_trap = 0
    /\ stacks = <<>>
    /\ patched = <<>>
    /\ written = <<>>

(***************************************************************************)
(* Inputs of the module's operations.                                      *)
(***************************************************************************)
\* Number of allocate_stack calls.
MaxStacks == 1
\* Number of direct allocate_code / allocate_readonly / allocate_readwrite calls.
MaxRawAllocs == 3

\* Compiled functions (code and relocation records) given to define_function.
\* `call rel32; ret`, calling f2:
CallF2 ==
    [bytes |-> <<232, 0, 0, 0, 0, 195>>,
     relocs |-> <<[reloc |-> "X86CallPCRel4", offset |-> 1,
                   name |-> FuncObj(2), addend |-> LE(-4, 8)]>>]
\* `movabs rax, imm64; ret`, loading the address of msg:
LoadMsg ==
    [bytes |-> <<72, 184, 0, 0, 0, 0, 0, 0, 0, 0, 195>>,
     relocs |-> <<[reloc |-> "Abs8", offset |-> 2,
                   name |-> DataObj(3), addend |-> LE(0, 8)]>>]
\* `mov rax, 42; ret`, given to define_function_bytes:
Mov42 == <<72, 199, 192, 42, 0, 0, 0, 195>>
\* Data descriptions given to define_data.
Zeros4 ==
    [init |-> [kind |-> "Zeros", size |-> 4], align |-> NoAlign,
     function_relocs |-> <<>>, data_relocs |-> <<>>]
Pointers ==
    [init |-> [kind |-> "Bytes",
               contents |-> <<1, 2, 3, 4, 5, 6, 7, 8, 9, 10, 11, 12, 13, 14, 15, 16>>],
     align |-> 8,
     function_relocs |-> <<<<0, 1>>>>, data_relocs |-> <<<<8, 3, LE(2, 8)>>>>]
Uninit ==
    [init |-> [kind |-> "Uninitialized"], align |-> NoAlign,
     function_relocs |-> <<>>, data_relocs |-> <<>>]

\* The calls the client makes: the id and what it is defined as.
DefineFunctionCalls ==
    {[id |-> 1, inp |-> CallF2]}
DefineBytesCalls == {[id |-> 2, bytes |-> Mov42]}
DefineDataCalls == {[id |-> 1, inp |-> Pointers]}
\* The definitions made when only the layout of the regions is of interest.
LayoutFunctionCalls == {[id |-> 1, inp |-> CallF2], [id |-> 2, inp |-> LoadMsg]}
LayoutDataCalls ==
    {[id |-> 1, inp |-> Pointers], [id |-> 1, inp |-> Zeros4],
     [id |-> 2, inp |-> Pointers], [id |-> 2, inp |-> Zeros4]}
\* The definitions made when the rejected calls are of interest: second
\* definitions, definitions of imports, data without contents.
RedefineFunctionCalls ==
    {[id |-> 1, inp |-> CallF2], [id |-> 1, inp |-> LoadMsg]}
RedefineBytesCalls == {[id |-> 2, bytes |-> Mov42], [id |-> 3, bytes |-> Mov42]}
RedefineDataCalls ==
    {[id |-> 1, inp |-> Pointers], [id |-> 1, inp |-> Zeros4], [id |-> 1, inp |-> Uninit],
     [id |-> 3, inp |-> Zeros4]}
\* Functions with one relocation each, of every kind the module patches,
\* against compiled objects, imports and a libcall.
MaxI64 == <<255, 255, 255, 255, 255, 255, 255, 127>>
OneReloc(kind, target, addend) ==
    [bytes |-> <<72, 184, 0, 0, 0, 0, 0, 0, 0, 0, 195>>,
     relocs |-> <<[reloc |-> kind, offset |-> 2, name |-> target, addend |-> addend]>>]
RelocFunctionCalls ==
    {[id |-> 1, inp |-> CallF2], [id |-> 1, inp |-> LoadMsg]}
    \cup {[id |-> 1, inp |-> OneReloc(k, t, LE(d, 8))] :
             k \in {"Abs4", "Abs8", "X86PCRel4"},
             t \in {FuncObj(2), DataObj(1), DataObj(3), <<"libcall", "Memcpy">>},
             d \in {-3, 5}}
    \cup {[id |-> 1, inp |-> OneReloc(k, DataObj(3), MaxI64)] : k \in {"Abs4", "Abs8"}}
\* Data of n bytes with one pointer to f2 written at offset off, as
\* DataContext::write_function_addr records it; the offset is the client's.
PointerAt(n, off) ==
    [init |-> [kind |-> "Bytes", contents |-> [i \in 1..n |-> 16 + i]],
     align |-> 8, function_relocs |-> <<<<off, 2>>>>, data_relocs |-> <<>>]
\* Pointers inside the data, across its end and past its end.
BoundsDataCalls ==
    {[id |-> i, inp |-> PointerAt(n, off)] :
        i \in {1, 2}, n \in {8}, off \in {0, 4, 8}}
\* Two functions and two data objects, defined in any order.
OrderDataCalls == {[id |-> 1, inp |-> Zeros4], [id |-> 2, inp |-> Zeros4]}
StackSizes == {4, 16}
\* Which of the writes of one finalize_all fails (0: none).
FailPoints == 0..2
OrderFailPoints == 0..4
RawSizes == {0, 24, 40}
RawAligns == {NoAlign, 4, 32}

Ready == ipc = "ready" /\ ~crashed

SetCtx(cx) ==
    /\ alloc' = cx.alloc
    /\ maps' = cx.maps
    /\ mem' = cx.mem
    /\ allocs' = cx.allocs

\* InjectionModule::new: allocate the trap slot and poke INT3 into it. The
\* literal `0xcc` passed to write() is an i32: four bytes are written.
InjectionModule_new(wfail) ==
    /\ ipc = "init" /\ ~crashed
    /\ LET a == allocate_code_with(Ctx, 1, NoAlign)
           ok == a.res = "Ok" /\ ~wfail /\ RangeMapped(a.cx.mem, a.addr, 4)
       IN  /\ SetCtx(IF ok THEN [a.cx EXCEPT !.mem = WriteSlice(a.cx.mem, a.addr, LE(INT3, 4))]
                     ELSE a.cx)
           /\ breakpoint_trap' = IF a.res = "Ok" THEN a.addr ELSE breakpoint_trap
           /\ ipc' = IF ok THEN "ready" ELSE ipc
           /\ crashed' = ~ok
           /\ ret' = [op |-> "new", res |-> IF ok THEN "Ok" ELSE "Panic",
                      wrote |-> IF ok THEN a.addr..(a.addr + 3) ELSE {}]
    /\ UNCHANGED <<nraw, functions, data_objects, functions_to_finalize,
                   data_objects_to_finalize, stacks, patched, written>>
    /\ InjFrame

\* A table that takes every Id for undefined.
IsDefined_Never(tab, id) == FALSE

\* `!self.functions[func_id].is_none()`: the Id has a compiled object.
IsDefined(tab, id) == id \in DOMAIN tab

\* The body shared by define_function (bytes and relocs from the compiler)
\* and define_function_bytes (no relocs).
DefineFunctionBody(op, id, bytes, relocs) ==
    IF ~IsDefinable(FuncDecl[id].linkage)
    THEN /\ ret' = [op |-> op, res |-> "InvalidImportDefinition", obj |-> FuncObj(id)]
         /\ UNCHANGED <<crashed, mem, alloc, maps, allocs, functions,
                        functions_to_finalize>>
    ELSE IF IsDefined(functions, id)
    THEN /\ ret' = [op |-> op, res |-> "DuplicateDefinition", obj |-> FuncObj(id)]
         /\ UNCHANGED <<crashed, mem, alloc, maps, allocs, functions,
                        functions_to_finalize>>
    ELSE LET a == allocate_code_with(Ctx, Len(bytes), NoAlign)
         IN  /\ functions_to_finalize' = Append(functions_to_finalize, id)
             /\ SetCtx(a.cx)
             /\ IF a.res = "Ok"
                THEN /\ functions' = Insert(functions, id,
                            [bytes |-> bytes, relocs |-> relocs,
                             region |-> a.addr, finalized |-> FALSE])
                     /\ crashed' = FALSE
                     /\ ret' = [op |-> op, res |-> "Ok", obj |-> FuncObj(id)]
                ELSE /\ functions' = functions
                     /\ crashed' = TRUE
                     /\ ret' = [op |-> op, res |-> "Panic", obj |-> FuncObj(id)]

define_function(id, inp) ==
    /\ Ready
    /\ DefineFunctionBody("define_function", id, inp.bytes, inp.relocs)
    /\ UNCHANGED <<ipc, nraw, data_objects, data_objects_to_finalize, breakpoint_trap,
                   stacks, patched, written>>
    /\ InjFrame

define_function_bytes(id, bytes) ==
    /\ Ready
    /\ DefineFunctionBody("define_function_bytes", id, bytes, <<>>)
    /\ UNCHANGED <<ipc, nraw, data_objects, data_objects_to_finalize, breakpoint_trap,
                   stacks, patched, written>>
    /\ InjFrame

\* Init::size()
InitSize(init) == IF init.kind = "Zeros" THEN init.size ELSE Len(init.contents)
InitBytes(init) ==
    IF init.kind = "Zeros" THEN [i \in 1..init.size |-> 0] ELSE init.contents
\* The relocation records define_data builds (pointer width U64: Abs8).
DataRelocs(inp) ==
    [i \in 1..Len(inp.function_relocs) |->
        [reloc |-> "Abs8", offset |-> inp.function_relocs[i][1],
         name |-> FuncObj(inp.function_relocs[i][2]), addend |-> LE(0, 8)]]
    \o [i \in 1..Len(inp.data_relocs) |->
        [reloc |-> "Abs8", offset |-> inp.data_relocs[i][1],
         name |-> DataObj(inp.data_relocs[i][2]), addend |-> inp.data_relocs[i][3]]]

define_data(id, inp) ==
    /\ Ready
    /\ IF ~IsDefinable(DataDecl[id].linkage)
       THEN /\ ret' = [op |-> "define_data", res |-> "InvalidImportDefinition",
                       obj |-> DataObj(id)]
            /\ UNCHANGED <<crashed, mem, alloc, maps, allocs, data_objects,
                           data_objects_to_finalize>>
       ELSE IF IsDefined(data_objects, id)
       THEN /\ ret' = [op |-> "define_data", res |-> "DuplicateDefinition",
                       obj |-> DataObj(id)]
            /\ UNCHANGED <<crashed, mem, alloc, maps, allocs, data_objects,
                           data_objects_to_finalize>>
       ELSE IF DataDecl[id].tls \/ inp.init.kind = "Uninitialized"
       THEN \* the TLS assert fails before the push; init.size() panics after it
            /\ data_objects_to_finalize' =
                  IF DataDecl[id].tls THEN data_objects_to_finalize
                  ELSE Append(data_objects_to_finalize, id)
            /\ crashed' = TRUE
            /\ ret' = [op |-> "define_data", res |-> "Panic", obj |-> DataObj(id)]
            /\ UNCHANGED <<mem, alloc, maps, allocs, data_objects>>
       ELSE LET size == InitSize(inp.init)
                a == IF DataDecl[id].writable
                     THEN allocate_readwrite_with(Ctx, size, inp.align)
                     ELSE allocate_readonly_with(Ctx, size, inp.align)
            IN  /\ data_objects_to_finalize' = Append(data_objects_to_finalize, id)
                /\ SetCtx(a.cx)
                /\ IF a.res = "Ok"
                   THEN /\ data_objects' = Insert(data_objects, id,
                               [bytes |-> InitBytes(inp.init), relocs |-> DataRelocs(inp),
                                region |-> a.addr, finalized |-> FALSE])
                        /\ crashed' = FALSE
                        /\ ret' = [op |-> "define_data", res |-> "Ok", obj |-> DataObj(id)]
                   ELSE /\ data_objects' = data_objects
                        /\ crashed' = TRUE
                        /\ ret' = [op |-> "define_data", res |-> "Panic", obj |-> DataObj(id)]
    /\ UNCHANGED <<ipc, nraw, functions, functions_to_finalize, breakpoint_trap,
                   stacks, patched, written>>
    /\ InjFrame

\* Some pending object has a relocation whose store runs past the end of
\* its buffer.
PendingOutside ==
    \/ \E i \in 1..Len(functions_to_finalize) :
          /\ functions_to_finalize[i] \in DOMAIN functions
          /\ OutsideWrites(functions[functions_to_finalize[i]].bytes,
                           functions[functions_to_finalize[i]].relocs) # {}
    \/ \E i \in 1..Len(data_objects_to_finalize) :
          /\ data_objects_to_finalize[i] \in DOMAIN data_objects
          /\ OutsideWrites(data_objects[data_objects_to_finalize[i]].bytes,
                           data_objects[data_objects_to_finalize[i]].relocs) # {}

\* finalize_all; the debuggee write of the failAt-th object it processes
\* fails (0: none), and `checked` says whether the build panics on integer
\* overflow and on debug assertions. A store past the end of a buffer is
\* undefined behaviour: with `fault` the process dies of it, without it the
\* store lands in the injector's heap and finalize goes on. The function
\* list is taken first; the data list is taken only once every function
\* has been finalized.
finalize_all(failAt, checked, fault) ==
    /\ Ready
    /\ failAt <= Len(PendingObjects)
    /\ fault => PendingOutside
    /\ LET fobjs == [i \in 1..Len(functions_to_finalize) |->
                        FuncObj(functions_to_finalize[i])]
           dobjs == [i \in 1..Len(data_objects_to_finalize) |->
                        DataObj(data_objects_to_finalize[i])]
           afterF == FinalizeList([Mod EXCEPT !.fault = fault], fobjs, 1, failAt, checked)
           afterD == IF afterF.res = "Ok"
                     THEN FinalizeList(afterF, dobjs, Len(fobjs) + 1, failAt, checked)
                     ELSE afterF
       IN  /\ functions_to_finalize' = <<>>
           /\ data_objects_to_finalize' =
                 IF afterF.res = "Ok" THEN <<>> ELSE data_objects_to_finalize
           /\ functions' = afterD.functions
           /\ data_objects' = afterD.data_objects
           /\ mem' = afterD.mem
           /\ patched' = afterD.patched
           /\ written' = afterD.written
           /\ crashed' = (afterD.res \in {"Panic", "Crash"})
           /\ ret' = [op |-> "finalize_all", res |-> afterD.res,
                      funcs |-> fobjs, datas |-> dobjs, done |-> afterD.done,
                      failed |-> afterD.failed, looked |-> afterD.looked,
                      outside |-> afterD.outside]
    /\ UNCHANGED <<ipc, nraw, alloc, maps, allocs, breakpoint_trap, stacks>>
    /\ InjFrame

\* A lookup that returns the region of any defined object.
LookupObject_NoAssert(tab, id) ==
    IF id \in DOMAIN tab THEN [res |-> "Ok", addr |-> tab[id].region]
    ELSE [res |-> "Panic", addr |-> NoAddr]

\* The body of lookup_function / lookup_data_object on the table tab:
\* unwrap() of the entry, assert!(finalized), then the region.
LookupObject(tab, id) ==
    IF id \in DOMAIN tab /\ tab[id].finalized
    THEN [res |-> "Ok", addr |-> tab[id].region]
    ELSE [res |-> "Panic", addr |-> NoAddr]

\* What a lookup that came back with l leaves behind.
LookupReturned(op, o, l) ==
    /\ ret' = [op |-> op, obj |-> o, res |-> l.res, addr |-> l.addr]
    /\ crashed' = (l.res = "Panic")
    /\ UNCHANGED <<ipc, nraw, alloc, maps, allocs, mem, functions, data_objects,
                   functions_to_finalize, data_objects_to_finalize,
                   breakpoint_trap, stacks, patched, written>>
    /\ InjFrame

lookup_function(id) ==
    /\ Ready
    /\ LookupReturned("lookup_function", FuncObj(id), LookupObject(functions, id))

lookup_data_object(id) ==
    /\ Ready
    /\ LookupReturned("lookup_data_object", DataObj(id), LookupObject(data_objects, id))

\* What new_stack leaves behind once allocate_stack has returned s.
StackReturned(size, s) ==
    /\ SetCtx(s.cx)
    /\ stacks' = Append(stacks, [base |-> s.base, size |-> size,
                                 top |-> s.top, res |-> s.res])
    /\ ret' = [op |-> "new_stack", res |-> s.res]

\* new_stack(size): allocate_stack(size, breakpoint_trap).
new_stack(size, wfail) ==
    /\ Ready
    /\ Len(stacks) < MaxStacks
    /\ StackReturned(size, allocate_stack_with(Ctx, size, breakpoint_trap, wfail))
    /\ UNCHANGED <<crashed, ipc, nraw, functions, data_objects, functions_to_finalize,
                   data_objects_to_finalize, breakpoint_trap, patched, written>>
    /\ InjFrame

\* The allocations made directly through the InjectionContext.
RawAllocate(op, a) ==
    /\ SetCtx(a.cx)
    /\ nraw' = nraw + 1
    /\ ret' = [op |-> op, res |-> a.res, addr |-> a.addr]
    /\ UNCHANGED <<crashed, ipc, functions, data_objects, functions_to_finalize,
                   data_objects_to_finalize, breakpoint_trap, stacks, patched,
                   written>>
    /\ InjFrame

allocate_code(size, align) ==
    /\ Ready /\ nraw < MaxRawAllocs
    /\ RawAllocate("allocate_code", allocate_code_with(Ctx, size, align))

allocate_readonly(size, align) ==
    /\ Ready /\ nraw < MaxRawAllocs
    /\ RawAllocate("allocate_readonly", allocate_readonly_with(Ctx, size, align))

allocate_readwrite(size, align) ==
    /\ Ready /\ nraw < MaxRawAllocs
    /\ RawAllocate("allocate_readwrite", allocate_readwrite_with(Ctx, size, align))

InjNext ==
    \/ \E wfail \in BOOLEAN : InjectionModule_new(wfail)
    \/ \E c \in DefineFunctionCalls : define_function(c.id, c.inp)
    \/ \E c \in DefineBytesCalls : define_function_bytes(c.id, c.bytes)
    \/ \E c \in DefineDataCalls : define_data(c.id, c.inp)
    \/ \E failAt \in FailPoints, checked \in BOOLEAN, fault \in BOOLEAN :
          finalize_all(failAt, checked, fault)
    \/ \E size \in StackSizes : new_stack(size, FALSE)

\* Definitions and stacks alone: where the regions end up.
LayoutNext ==
    \/ \E wfail \in BOOLEAN : InjectionModule_new(wfail)
    \/ \E c \in LayoutFunctionCalls : define_function(c.id, c.inp)
    \/ \E c \in DefineBytesCalls : define_function_bytes(c.id, c.bytes)
    \/ \E c \in LayoutDataCalls : define_data(c.id, c.inp)
    \/ \E size \in StackSizes, wfail \in BOOLEAN : new_stack(size, wfail)

\* Definitions, accepted and rejected, and finalize.
DefNext ==
    \/ \E wfail \in BOOLEAN : InjectionModule_new(wfail)
    \/ \E c \in RedefineFunctionCalls : define_function(c.id, c.inp)
    \/ \E c \in RedefineBytesCalls : define_function_bytes(c.id, c.bytes)
    \/ \E c \in RedefineDataCalls : define_data(c.id, c.inp)
    \/ \E failAt \in FailPoints, checked \in BOOLEAN, fault \in BOOLEAN :
          finalize_all(failAt, checked, fault)

\* One relocated function, the objects it refers to, and finalize.
RelocNext ==
    \/ \E wfail \in BOOLEAN : InjectionModule_new(wfail)
    \/ \E c \in RelocFunctionCalls : define_function(c.id, c.inp)
    \/ \E c \in DefineBytesCalls : define_function_bytes(c.id, c.bytes)
    \/ \E c \in DefineDataCalls : define_data(c.id, c.inp)
    \/ \E checked \in BOOLEAN, fault \in BOOLEAN :
          finalize_all(0, checked, fault)

\* Data whose relocation offsets the client chose, and finalize.
BoundsNext ==
    \/ \E wfail \in BOOLEAN : InjectionModule_new(wfail)
    \/ \E c \in DefineBytesCalls : define_function_bytes(c.id, c.bytes)
    \/ \E c \in BoundsDataCalls : define_data(c.id, c.inp)
    \/ \E checked \in BOOLEAN, fault \in BOOLEAN : finalize_all(0, checked, fault)

\* Several pending objects of each kind, and finalize.
OrderNext ==
    \/ \E wfail \in BOOLEAN : InjectionModule_new(wfail)
    \/ \E c \in LayoutFunctionCalls : define_function(c.id, c.inp)
    \/ \E c \in OrderDataCalls : define_data(c.id, c.inp)
    \/ \E failAt \in OrderFailPoints, checked \in BOOLEAN, fault \in BOOLEAN :
          finalize_all(failAt, checked, fault)

\* Definitions, finalize, and lookups of every declared Id.
LookupNext ==
    \/ \E wfail \in BOOLEAN : InjectionModule_new(wfail)
    \/ \E c \in DefineFunctionCalls : define_function(c.id, c.inp)
    \/ \E c \in DefineBytesCalls : define_function_bytes(c.id, c.bytes)
    \/ \E c \in DefineDataCalls : define_data(c.id, c.inp)
    \/ \E failAt \in FailPoints, checked \in BOOLEAN, fault \in BOOLEAN :
          finalize_all(failAt, checked, fault)
    \/ \E id \in FuncIds : lookup_function(id)
    \/ \E id \in DataIds : lookup_data_object(id)

\* The allocators alone: direct allocations.
AllocNext ==
    \/ \E wfail \in BOOLEAN : InjectionModule_new(wfail)
    \/ \E size \in RawSizes, align \in RawAligns : allocate_code(size, align)
    \/ \E size \in RawSizes, align \in RawAligns : allocate_readonly(size, align)
    \/ \E size \in RawSizes, align \in RawAligns : allocate_readwrite(size, align)

(***************************************************************************)
(* Specifications: one per part; the other parts' variables do not move.   *)
(***************************************************************************)
Init == WTInit /\ DbgInit /\ BPInit /\ CallInit /\ InjInit

SpecWT == Init /\ [][WTNext]_vars

\* Every thread that can take a step is scheduled eventually.
SpecWTPanic ==
    /\ Init /\ [][WTPanicNext]_vars
    /\ WF_vars(\E c \in Callers : RecvClosed(c))
    /\ WF_vars(\E c \in Callers : WorkerSend(c))
    /\ WF_vars(\E c \in Callers : WorkerRecv(c))
    /\ WF_vars(\E c \in Callers : SpawnSend(c))
    /\ WF_vars(WorkerRun \/ WorkerPanic)

\* Every thread that can take a step is scheduled eventually; a running
\* closure either returns or dispatches again.
SpecWTNested ==
    /\ Init /\ [][WTNestedNext]_vars
    /\ \A th \in Threads : WF_vars(Lock(th))
    /\ \A c \in Callers : WF_vars(SpawnSend(c))
    /\ \A c \in Callers : WF_vars(WorkerRecv(c))
    /\ \A c \in Callers : WF_vars(WorkerSend(c))
    /\ WF_vars(WorkerRun \/ NestedSpawn)

\* From before the construction of the WorkerThread.
InitNew == WTNewInit /\ DbgInit /\ BPInit /\ CallInit /\ InjInit
SpecWTNew == InitNew /\ [][WTNewNext]_vars

SpecBP == Init /\ [][BPNext]_vars

SpecRead == Init /\ [][ReadNext]_vars

SpecSym == Init /\ [][SymNext]_vars

SpecInj == Init /\ [][InjNext]_vars

SpecLayout == Init /\ [][LayoutNext]_vars
SpecDef == Init /\ [][DefNext]_vars
SpecReloc == Init /\ [][RelocNext]_vars
SpecOrder == Init /\ [][OrderNext]_vars
SpecBounds == Init /\ [][BoundsNext]_vars
SpecLookup == Init /\ [][LookupNext]_vars
SpecAlloc == Init /\ [][AllocNext]_vars

(***************************************************************************)
(* C1: dispatches through clones of one handle are strictly serialized: at *)
(* most one task is executing on the tracer thread, a task is taken only   *)
(* when every earlier submitted task has run to completion, and tasks      *)
(* complete in the order in which they were submitted on the channel.      *)
(***************************************************************************)
IsPrefix(s, t) == Len(s) <= Len(t) /\ \A i \in 1..Len(s) : s[i] = t[i]

C1_Serialized ==
    /\ Cardinality({t \in Tasks : tstate[t] = "running"}) <= 1
    /\ IsPrefix(completed, submitted)
    /\ Len(submitted) - Len(completed) <= 1
    /\ \A t \in Tasks : tstate[t] = "running" =>
          /\ Len(submitted) = Len(completed) + 1
          /\ submitted[Len(submitted)] = t

\* Two callers were competing and both their tasks have completed.
C1_Witness ==
    /\ Len(completed) >= 3
    /\ \E i, j \in 1..Len(completed) : completed[i][1] # completed[j][1]
    /\ \E c \in Callers : cpc[c] = "locked"

(***************************************************************************)
(* The compiled objects of the module, as the claims below speak of them.  *)
(***************************************************************************)
Objects ==
    {FuncObj(id) : id \in DOMAIN functions} \cup {DataObj(id) : id \in DOMAIN data_objects}
\* The CompiledBytes of an object.
Compiled(o) == IF o[1] = "func" THEN functions[o[2]] ELSE data_objects[o[2]]
\* The debuggee holds the relocated buffer of o at o's region.
RemoteMatches(o) ==
    /\ o \in DOMAIN patched
    /\ \A i \in 1..Len(patched[o]) : mem[Compiled(o).region + i - 1] = patched[o][i]
\* How often finalize wrote o to the debuggee.
TimesWritten(o) == Cardinality({i \in 1..Len(written) : written[i] = o})
\* Index of x in the sequence s (0: not in it).
IndexOf(s, x) == IF \E i \in 1..Len(s) : s[i] = x
                 THEN CHOOSE i \in 1..Len(s) : s[i] = x ELSE 0

(***************************************************************************)
(* C2: in every reachable state (failed finalize_all calls included),      *)
(* every compiled object with finalized = true has its relocation-patched  *)
(* buffer in the debuggee at [region, region + len).                       *)
(***************************************************************************)
C2_FinalizedMatchesRemote ==
    \A o \in Objects : Compiled(o).finalized => RemoteMatches(o)

(***************************************************************************)
(* C3: after a finalize_all whose write of some pending object failed, the *)
(* objects finalized earlier in the call are finalized and valid, the      *)
(* failing object has finalized = false, and every pending object the call *)
(* had not processed yet is still in its pending list.                     *)
(***************************************************************************)
C3_PartialFinalize ==
    (ret.op = "finalize_all" /\ ret.res = "Err") =>
        LET taken == ret.funcs \o ret.datas
            at == IndexOf(taken, ret.failed)
        IN  /\ \A i \in 1..Len(ret.done) :
                  Compiled(ret.done[i]).finalized /\ RemoteMatches(ret.done[i])
            /\ ~Compiled(ret.failed).finalized
            /\ \A i \in (at + 1)..Len(taken) :
                  \E j \in 1..Len(PendingObjects) : PendingObjects[j] = taken[i]

(***************************************************************************)
(* C4: every address in the breakpoint table has INT3 in the debuggee, and *)
(* its replaced_byte is the byte that was there before the breakpoint was  *)
(* installed, in every reachable state (failed calls included).            *)
(***************************************************************************)
C4_TableInvariant ==
    \A a \in DOMAIN breakpoints :
        /\ mem[a] = INT3
        /\ breakpoints[a].replaced_byte = OrigText[a]

(***************************************************************************)
(* C5: a resume made while the debuggee is stopped on the breakpoint at a  *)
(* executes the original instruction at a before the debuggee can stop on  *)
(* the breakpoint at a again.                                              *)
(***************************************************************************)
C5_ResumeExecutesOriginal ==
    (/\ stepOver.addr # NoAddr
     /\ stepOver.wasHit
     /\ dstate = "trapped"
     /\ hit = stepOver.addr)
    => stepOver.addr \in execSince

(***************************************************************************)
(* C6: when the debuggee stops on the breakpoint at a, rip = a + 1; and    *)
(* after a resume that stepped over the breakpoint at a, the table holds   *)
(* the entry for a it held before (same replaced_byte, same callback) and  *)
(* the byte at a is INT3.                                                  *)
(***************************************************************************)
C6_StopAndReinstall ==
    /\ (dstate \in {"trapped", "stopped"} /\ hit # NoAddr) => rip = hit + 1
    /\ stepOver.addr # NoAddr =>
          /\ stepOver.addr \in DOMAIN breakpoints
          /\ breakpoints[stepOver.addr] = stepOver.entry
          /\ mem[stepOver.addr] = INT3

\* A resume stepped over the breakpoint the debuggee had stopped on, and
\* the debuggee has stopped on a breakpoint again.
C6_Witness ==
    /\ stepOver.addr # NoAddr
    /\ stepOver.wasHit
    /\ ret = [op |-> "next_event", res |-> "Ok"]
    /\ hit # NoAddr

(***************************************************************************)
(* C7: each defined object is patched and written to the debuggee at most  *)
(* once, and exactly once as soon as a finalize_all made after its         *)
(* definition has returned Ok; finalize_all never fails the assertion that *)
(* an object is not finalized twice.                                       *)
(***************************************************************************)
C7_WrittenExactlyOnce ==
    /\ \A o \in Objects : TimesWritten(o) <= 1
    /\ (ret.op = "finalize_all" /\ ret.res = "Ok") =>
          \A o \in Objects : TimesWritten(o) = 1
    /\ ~(ret.op = "finalize_all" /\ ret.res = "Panic")

(***************************************************************************)
(* C8: once an object is finalized, no later call changes its region,      *)
(* resets its finalized flag, or changes the debuggee bytes inside         *)
(* [region, region + len).                                                 *)
(***************************************************************************)
C8_FinalizedImmutable ==
    [][\A o \in Objects :
          Compiled(o).finalized =>
              /\ Compiled(o)'.finalized
              /\ Compiled(o)'.region = Compiled(o).region
              /\ \A i \in 1..Len(patched[o]) :
                    mem'[Compiled(o).region + i - 1] = mem[Compiled(o).region + i - 1]]_vars

(***************************************************************************)
(* C9: the remote byte ranges [region, region + len) of any two distinct   *)
(* compiled objects are disjoint, and disjoint from the breakpoint trap    *)
(* slot and from the allocated stacks.                                     *)
(***************************************************************************)
\* The byte range [a, a + n) as a set of addresses.
Range(a, n) == a..(a + n - 1)
\* Length of the buffer of o: the bytes it was defined with.
ObjLen(o) == IF Compiled(o).finalized THEN Len(patched[o]) ELSE Len(Compiled(o).bytes)
ObjRange(o) == Range(Compiled(o).region, ObjLen(o))
TrapRange == Range(breakpoint_trap, 1)
AllocatedStacks == {i \in 1..Len(stacks) : stacks[i].base # NoAddr}
StackRange(i) == Range(stacks[i].base, stacks[i].size)

C9_RegionsDisjoint ==
    ipc = "ready" =>
        /\ \A o1, o2 \in Objects : o1 # o2 => ObjRange(o1) \cap ObjRange(o2) = {}
        /\ \A o \in Objects : ObjRange(o) \cap TrapRange = {}
        /\ \A o \in Objects : \A i \in AllocatedStacks : ObjRange(o) \cap StackRange(i) = {}

\* Two functions, a writable and a read-only data object and a stack are
\* placed, the stack in the page of the writable object.
C9_Witness ==
    /\ ipc = "ready" /\ ~crashed
    /\ DOMAIN functions = {1, 2}
    /\ DOMAIN data_objects = {1, 2}
    /\ \E i \in AllocatedStacks :
          /\ stacks[i].res = "Ok"
          /\ \E k \in 1..Len(maps) :
                /\ stacks[i].base \in Range(maps[k].base, maps[k].len)
                /\ data_objects[1].region \in Range(maps[k].base, maps[k].len)
                /\ data_objects[1].region < stacks[i].base

DefineOps == {"define_function", "define_function_bytes", "define_data"}

C11_DuplicateRejected ==
    [][(ret'.op \in DefineOps /\ ret'.obj \in Objects) =>
          /\ ret'.res = "DuplicateDefinition"
          /\ UNCHANGED <<functions, data_objects, functions_to_finalize,
                         data_objects_to_finalize, alloc, maps, allocs, mem>>]_vars

\* A second definition of a finalized object was rejected while another
\* object was still pending.
C11_Witness ==
    /\ ret.op \in DefineOps
    /\ ret.res = "DuplicateDefinition"
    /\ Compiled(ret.obj).finalized
    /\ Len(PendingObjects) > 0

(***************************************************************************)
(* C12: defining a function or data object whose declaration has Import    *)
(* linkage returns InvalidImportDefinition, allocates no region, stores no *)
(* compiled object and enqueues nothing for finalize.                      *)
(***************************************************************************)
\* The linkage the object was declared with.
LinkageOf(o) == IF o[1] = "func" THEN FuncDecl[o[2]].linkage ELSE DataDecl[o[2]].linkage

C12_ImportRejected ==
    [][(ret'.op \in DefineOps /\ LinkageOf(ret'.obj) = "Import") =>
          /\ ret'.res = "InvalidImportDefinition"
          /\ UNCHANGED <<functions, data_objects, functions_to_finalize,
                         data_objects_to_finalize, alloc, maps, allocs, mem>>
          /\ ret'.obj \notin Objects'
          /\ \A i \in 1..Len(PendingObjects') : PendingObjects'[i] # ret'.obj]_vars

\* An import was given a definition after other objects had been defined,
\* one of them still pending.
C12_Witness ==
    /\ ret.op \in DefineOps
    /\ ret.res = "InvalidImportDefinition"
    /\ Objects # {}
    /\ Len(PendingObjects) > 0

(***************************************************************************)
(* C13: define_data with an Uninitialized init descriptor, for a definable *)
(* Id without a definition, is rejected with a recoverable per-call error  *)
(* (an Err, not a panic), and the Id is neither stored as a compiled       *)
(* object nor left in the pending-data list.                               *)
(***************************************************************************)
C13_UninitializedRejected ==
    [][\A id \in DataIds :
          (/\ IsDefinable(DataDecl[id].linkage)
           /\ ~IsDefined(data_objects, id)
           /\ define_data(id, Uninit)) =>
              /\ ret'.res \notin {"Ok", "Panic"}
              /\ ~IsDefined(data_objects', id)
              /\ \A i \in 1..Len(data_objects_to_finalize') :
                    data_objects_to_finalize'[i] # id]_vars

(***************************************************************************)
(* C14: during finalize every relocation against a user symbol resolves to *)
(* the region of that Id's compiled object whenever one exists (finalized  *)
(* or pending, function or data) and lookup_symbol is not called for it;   *)
(* without a compiled object it resolves to lookup_symbol(declared name),  *)
(* and a LibCall relocation to lookup_symbol(libcall name).                *)
(***************************************************************************)
\* The declared name of a user symbol, or the name of a libcall.
SymbolName(name) ==
    IF name[1] = "func" THEN FuncDecl[name[2]].name
    ELSE IF name[1] = "data" THEN DataDecl[name[2]].name
    ELSE LibcallName(name[2])
\* The address the property gives the target of a relocation.
ExpectedTarget(name) ==
    IF name \in Objects THEN LE(Compiled(name).region, 8)
    ELSE LookupSymbol(SymbolName(name))
\* The bytes of the relocated buffer of o that relocation r patched.
SlotWidth(r) == IF r.reloc = "Abs8" THEN 8 ELSE 4
Slot(o, r) == SubSeq(patched[o], r.offset + 1, r.offset + SlotWidth(r))
\* What the slot holds when the relocation resolved to the address t.
SlotFor(o, r, t) ==
    IF r.reloc = "Abs8" THEN Add64(t, r.addend)
    ELSE IF r.reloc = "Abs4" THEN Low32(Add64(t, r.addend))
    ELSE Low32(Sub64(Add64(t, r.addend), LE(Compiled(o).region + r.offset, 8)))

C14_ResolvesToRegionOrLookup ==
    ret.op = "finalize_all" =>
        \A i \in 1..Len(ret.done) :
            \A j \in 1..Len(Compiled(ret.done[i]).relocs) :
                LET o == ret.done[i]
                    r == Compiled(o).relocs[j]
                IN  /\ Slot(o, r) = SlotFor(o, r, ExpectedTarget(r.name))
                    /\ (r.name \in Objects) = (SymbolName(r.name) \notin ret.looked)
\* A function whose relocation targets a data object pending in the same
\* finalize_all, next to a data object that refers to an import.
C14_Witness ==
    /\ ret.op = "finalize_all" /\ ret.res = "Ok"
    /\ \E i \in 1..Len(ret.done) :
          /\ ret.done[i] = FuncObj(1)
          /\ Compiled(FuncObj(1)).relocs[1].name = DataObj(1)
    /\ \E i \in 1..Len(ret.datas) : ret.datas[i] = DataObj(1)
    /\ "msg" \in ret.looked

(***************************************************************************)
(* C15: for every Abs8 relocation with target address T and addend d, the  *)
(* 8 bytes at region + offset after finalize are the little-endian         *)
(* encoding of T + d as a wrapping 64-bit sum; for every Abs4 relocation   *)
(* the 4 bytes there are the little-endian low 32 bits of that sum.        *)
(***************************************************************************)
\* The n debuggee bytes from addr on.
MemBytes(addr, n) == [i \in 1..n |-> mem[addr + i - 1]]
\* s is the sum of x and y modulo 256^Len(x): some carry chain starting at
\* zero explains every byte of s.
IsWrapSum(s, x, y) ==
    \E c \in [1..(Len(x) + 1) -> {0, 1}] :
        /\ c[1] = 0
        /\ \A i \in 1..Len(x) : x[i] + y[i] + c[i] = s[i] + 256 * c[i + 1]

C15_AbsIsWrappingSum ==
    ret.op = "finalize_all" =>
        \A i \in 1..Len(ret.done) :
            \A j \in 1..Len(Compiled(ret.done[i]).relocs) :
                LET o == ret.done[i]
                    r == Compiled(o).relocs[j]
                    at == Compiled(o).region + r.offset
                IN  /\ r.reloc = "Abs8" =>
                          IsWrapSum(MemBytes(at, 8), ExpectedTarget(r.name), r.addend)
                    /\ r.reloc = "Abs4" =>
                          IsWrapSum(MemBytes(at, 4), Low32(ExpectedTarget(r.name)),
                                    Low32(r.addend))
\* An Abs8 relocation whose sum passed the top of the signed range and was
\* written wrapped, in a build without overflow checks.
C15_Witness ==
    /\ ret.op = "finalize_all" /\ ret.res = "Ok"
    /\ \E i \in 1..Len(ret.done) :
          LET o == ret.done[i]
          IN  /\ Len(Compiled(o).relocs) = 1
              /\ Compiled(o).relocs[1].reloc = "Abs8"
              /\ Compiled(o).relocs[1].addend = MaxI64
              /\ mem[Compiled(o).region + 2 + 7] >= 128

(***************************************************************************)
(* C16: for every PCRel4 or CallPCRel4 relocation at offset off in an      *)
(* object placed at R, with target T and addend d, the signed 32-bit value *)
(* at R + off after finalize equals (T + d) - (R + off); for a call from A *)
(* (offset 1, addend -4) to B it equals R_b - (R_a + 1) - 4.               *)
(***************************************************************************)
\* The 64-bit value of a signed 32-bit one.
SignExtend(v) == v \o [i \in 1..4 |-> IF v[4] >= 128 THEN 255 ELSE 0]
PCRelKinds == {"X86PCRel4", "X86CallPCRel4"}

\* The value v at the slot is the difference: v + (R + off) = T + d.
C16_PCRelIsDifference ==
    ret.op = "finalize_all" =>
        \A i \in 1..Len(ret.done) :
            \A j \in 1..Len(Compiled(ret.done[i]).relocs) :
                LET o == ret.done[i]
                    r == Compiled(o).relocs[j]
                    at == Compiled(o).region + r.offset
                IN  r.reloc \in PCRelKinds =>
                        IsWrapSum(Add64(ExpectedTarget(r.name), r.addend),
                                  SignExtend(MemBytes(at, 4)), LE(at, 8))

(***************************************************************************)
(* C17: with the imported data symbol msg at 0x7fff00001234 and a function *)
(* defined with an Abs8 relocation at offset 2, addend 0, targeting msg,   *)
(* bytes 2..10 at the function's region after finalize are                 *)
(* 34 12 00 00 00 00 ff 7f.                                                *)
(***************************************************************************)
\* f1 was defined as that function and the last finalize_all wrote it.
LoadMsgFinalized ==
    /\ ret.op = "finalize_all"
    /\ \E i \in 1..Len(ret.done) : ret.done[i] = FuncObj(1)
    /\ Compiled(FuncObj(1)).relocs = LoadMsg.relocs

Undefined(name) ==
    name \notin Objects /\ LookupSymbol(SymbolName(name)) = LE(0, 8)
HasUndefinedTarget(o) ==
    o \in Objects /\ \E j \in 1..Len(Compiled(o).relocs) :
                        Undefined(Compiled(o).relocs[j].name)

C18_UndefinedSymbolIsError ==
    ret.op = "finalize_all" =>
        /\ (\E i \in 1..Len(ret.funcs \o ret.datas) :
                HasUndefinedTarget((ret.funcs \o ret.datas)[i])) => ret.res = "Err"
        /\ \A i \in 1..Len(ret.done) : ~HasUndefinedTarget(ret.done[i])

(***************************************************************************)
(* C19: within one finalize_all call the debuggee write of every pending   *)
(* function happens before the write of any pending data object, and       *)
(* within each kind the objects are written in the order they were         *)
(* defined.                                                                *)
(***************************************************************************)
\* Every function of the sequence s stands before every data object of it.
FunctionsFirst(s) ==
    \A i, j \in 1..Len(s) : (s[i][1] = "func" /\ s[j][1] = "data") => i < j
\* Two objects of one kind stand in s in the order they have in the list
\* `defined`, the ids in definition order.
InDefinitionOrder(s, kind, defined) ==
    \A i, j \in 1..Len(s) :
        (i < j /\ s[i][1] = kind /\ s[j][1] = kind) =>
            /\ IndexOf(defined, s[i][2]) > 0
            /\ IndexOf(defined, s[i][2]) < IndexOf(defined, s[j][2])

\* ret.done lists the objects in the order finalize_all wrote them; the
\* pending lists before the step hold the ids in definition order.
C19_FunctionsBeforeDataInOrder ==
    [][ret'.op = "finalize_all" =>
          /\ FunctionsFirst(ret'.done)
          /\ InDefinitionOrder(ret'.done, "func", functions_to_finalize)
          /\ InDefinitionOrder(ret'.done, "data", data_objects_to_finalize)
          /\ SubSeq(written', 1, Len(written)) = written
          /\ SubSeq(written', Len(written) + 1, Len(written')) = ret'.done]_vars
\* Four objects written by one call, f2 defined before f1 and d2 before d1.
C19_Witness ==
    /\ ret.op = "finalize_all"
    /\ ret.done = <<FuncObj(2), FuncObj(1), DataObj(2), DataObj(1)>>

(***************************************************************************)
(* C20: lookup_function(id) and lookup_data_object(id) return the region   *)
(* assigned at define time exactly when the object is finalized; for an Id *)
(* that is declared but undefined, or defined but not yet finalized, they  *)
(* panic instead of returning an address.                                  *)
(***************************************************************************)
LookupOps == {"lookup_function", "lookup_data_object"}

\* The region of a compiled object never changes after its definition, and
\* a lookup returns it if the object is finalized and panics if it is not.
C20_LookupRequiresFinalized ==
    [][/\ \A o \in Objects :
             o \in Objects' /\ Compiled(o)'.region = Compiled(o).region
       /\ ret'.op \in LookupOps =>
             IF ret'.obj \in Objects /\ Compiled(ret'.obj).finalized
             THEN ret'.res = "Ok" /\ ret'.addr = Compiled(ret'.obj).region /\ ~crashed'
             ELSE ret'.res = "Panic" /\ ret'.addr = NoAddr /\ crashed']_vars
\* A lookup that returned the region of a finalized object while another
\* object was defined and still pending.
C20_Witness ==
    /\ ret.op \in LookupOps /\ ret.res = "Ok"
    /\ ret.addr = Compiled(ret.obj).region
    /\ Len(PendingObjects) > 0
    /\ \E o \in Objects : ~Compiled(o).finalized

(***************************************************************************)
(* C21: in every interleaving of concurrent callers using clones of one    *)
(* handle, each dispatch returns to its caller the value produced by that  *)
(* caller's own task, never the result of another caller's task, so the    *)
(* downcast of the received result to the caller's type never fails.       *)
(***************************************************************************)
C21_OwnResult ==
    \A c \in Callers :
        \A k \in 1..Len(got[c]) : got[c][k] = <<"result", <<c, k>>>>
\* Dispatches of different callers have alternated on the tracer thread, and
\* a further caller is waiting for the mutex while one is being served.
C21_Witness ==
    /\ Len(completed) >= 3
    /\ completed[1][1] # completed[2][1]
    /\ completed[2][1] # completed[3][1]
    /\ \A i \in 1..3 : tstate[completed[i]] = "returned"
    /\ \E c \in Callers : cpc[c] = "receiving"

(***************************************************************************)
(* C22: a dispatch never returns to its caller while its task is still     *)
(* queued or executing: in every reachable state in which dispatch has     *)
(* returned, the task has finished on the tracer thread and is never       *)
(* executed afterwards, so data borrowed by the task is not accessed after *)
(* the dispatch ends.                                                      *)
(***************************************************************************)
\* The k-th dispatch of caller c has returned.
Returned(c, k) == k <= ndisp[c] /\ (k < ndisp[c] \/ cpc[c] = "idle")
\* How often the tracer thread ran task t to its end.
TimesCompleted(t) == Cardinality({i \in 1..Len(completed) : completed[i] = t})

\* `completed` only grows, so one completion in every state after the return
\* means no execution after it.
C22_ReturnedMeansFinished ==
    \A c \in Callers : \A k \in 1..MaxDispatch :
        Returned(c, k) =>
            /\ TimesCompleted(<<c, k>>) = 1
            /\ wtask # <<c, k>>
            /\ Len(got[c]) >= k
\* A dispatch has returned while the tracer thread is executing the task of
\* another caller.
C22_Witness ==
    /\ \E c \in Callers : Returned(c, 1) /\ Returned(c, 2)
    /\ wpc = "run"
    /\ \E c \in Callers : wtask = <<c, 1>> /\ cpc[c] = "receiving"

(***************************************************************************)
(* C23: if a task panics on the tracer thread, the tracer thread           *)
(* terminates and every subsequent dispatch on any clone of the handle     *)
(* fails with a channel-closed error; no later dispatch blocks forever and *)
(* no later task is executed.                                              *)
(***************************************************************************)
TaskPanicked == \E t \in Tasks : tstate[t] = "panicked"
InSpawn(c) == cpc[c] \in {"locked", "sending", "receiving"}

\* As stated: once a task has panicked the tracer thread is gone, nothing
\* is executing, and every dispatch that has failed met the closed channel.
C23_LaterDispatchChannelClosed ==
    TaskPanicked =>
        /\ wpc = "dead" /\ wtask = NoTask
        /\ \A c \in Callers : cpc[c] \in Failures => cpc[c] = "RecvError"

\* Amended: the dispatch in flight fails on the closed channel, every later
\* dispatch fails on the poisoned mutex before it sends anything; no task
\* is submitted or executed after the panic, and no caller stays inside
\* spawn.
C23_PanicFailsLaterDispatches ==
    /\ [](TaskPanicked =>
             /\ wpc = "dead" /\ wtask = NoTask
             /\ \A c \in Callers : cpc[c] \notin {"locked", "sending"})
    /\ [][TaskPanicked =>
             /\ completed' = completed /\ submitted' = submitted
             /\ \A c \in Callers :
                   /\ (cpc[c] = "idle" /\ cpc'[c] # "idle") => cpc'[c] = "PoisonError"
                   /\ (cpc[c] = "receiving" /\ cpc'[c] # "receiving") =>
                         cpc'[c] = "RecvError"]_vars
    /\ TaskPanicked ~> (\A c \in Callers : ~InSpawn(c))
\* After the panic one caller failed on the channel and another, dispatching
\* later, on the mutex.
C23_Witness ==
    /\ TaskPanicked
    /\ \E c \in Callers : cpc[c] = "RecvError"
    /\ \E c \in Callers : cpc[c] = "PoisonError" /\ Len(got[c]) = 1

(***************************************************************************)
(* C24: WorkerThread::new runs init on the newly spawned thread; if init   *)
(* returns an error, new returns that error to the caller, no handle is    *)
(* produced and the thread exits without entering the command loop; if     *)
(* init succeeds, new returns the handle together with init's R and the    *)
(* thread then serves dispatches.                                          *)
(***************************************************************************)
NewReturned == ret.op = "WorkerThread::new" /\ ret.res # "blocked"

C24_NewPropagatesInit ==
    /\ ~NewReturned => (submitted = <<>> /\ \A c \in Callers : cpc[c] = "idle")
    /\ NewReturned =>
          /\ ret.ranOn = "spawned thread"
          /\ ret.res = "Err" =>
                /\ ret.value = "E" /\ ~ret.handle
                /\ wpc = "exited"
                /\ submitted = <<>> /\ completed = <<>>
                /\ \A c \in Callers : cpc[c] = "idle" /\ ndisp[c] = 0
          /\ ret.res = "Ok" =>
                /\ ret.value = "R" /\ ret.handle
                /\ wpc \in {"recv", "run", "send"}
\* After a successful init the thread has served a dispatch.
C24_Witness ==
    /\ NewReturned /\ ret.res = "Ok"
    /\ \E c \in Callers : Len(got[c]) = MaxDispatch

(***************************************************************************)
(* C25: for every address a and original memory content,                   *)
(* set_breakpoint(a, cb) followed by remove_breakpoint(a) restores the     *)
(* debuggee memory at a to its original content and returns cb; between    *)
(* the two calls the byte at a is 0xcc and the other seven bytes of the    *)
(* word at a are unchanged.                                                *)
(***************************************************************************)
\* Of two calls that both returned Ok: ret.before is the debuggee memory as
\* it was when set_breakpoint was called.
C25_SetThenRemoveRestores ==
    [][/\ (ret'.op = "set_breakpoint" /\ ret'.res = "Ok") =>
             /\ mem'[ret'.addr] = INT3
             /\ \A x \in DOMAIN mem : x # ret'.addr => mem'[x] = mem[x]
       /\ (/\ ret.op = "set_breakpoint" /\ ret.res = "Ok"
           /\ ret'.op = "remove_breakpoint" /\ ret'.res = "Ok"
           /\ ret'.addr = ret.addr) =>
             /\ mem' = ret.before
             /\ ret'.cb = ret.cb]_vars
\* A breakpoint set and removed again while another breakpoint, whose word
\* overlaps, stays installed.
C25_Witness ==
    /\ ret.op = "remove_breakpoint" /\ ret.res = "Ok" /\ ret.addr = TextBase + 1
    /\ ret.cb = "cb2"
    /\ TextBase \in DOMAIN breakpoints /\ mem[TextBase] = INT3
    /\ mem[TextBase + 1] = OrigText[TextBase + 1]

(***************************************************************************)
(* C26: set_breakpoint on an address that already has a table entry is     *)
(* rejected, and the existing entry (its replaced_byte and callback) and   *)
(* the debuggee memory are left as they were before the rejected call.     *)
(***************************************************************************)
C26_DuplicateBreakpointRejected ==
    [][(ret'.op = "set_breakpoint" /\ ret'.addr \in DOMAIN breakpoints) =>
          /\ ret'.res # "Ok"
          /\ breakpoints' = breakpoints
          /\ mem' = mem]_vars

(***************************************************************************)
(* C27: every region handed out for executable code is aligned to 0x10,    *)
(* every writable-data region to 0x08 and every read-only region to 0x01,  *)
(* for every alignment value a caller passes to allocate_* or that a data  *)
(* init descriptor supplies to define_data: a supplied alignment can only  *)
(* raise the class default, never lower it.                                *)
(***************************************************************************)
ClassDefault(cls) ==
    IF cls = "code" THEN EXECUTABLE_DATA_ALIGNMENT
    ELSE IF cls = "readwrite" THEN WRITABLE_DATA_ALIGNMENT
    ELSE READONLY_DATA_ALIGNMENT

C27_ClassAlignmentFloor ==
    \A a \in allocs : a.addr % ClassDefault(a.cls) = 0

(***************************************************************************)
(* C28: for every size, allocate_stack(size, return_addr) reserves a       *)
(* 0x10-aligned writable region [base, base + size), writes return_addr    *)
(* into the last machine word of that region, and returns the address of   *)
(* that word (base + size - 8); the written word lies entirely inside      *)
(* [base, base + size).                                                    *)
(***************************************************************************)
C28_StackTopSlotInside ==
    \A i \in 1..Len(stacks) :
        stacks[i].res = "Ok" =>
            LET st == stacks[i]
            IN  /\ st.base % 16 = 0
                /\ [addr |-> st.base, size |-> st.size, cls |-> "readwrite",
                    align |-> 16] \in allocs
                /\ st.top = st.base + st.size - WordSize
                /\ st.base <= st.top /\ st.top + WordSize <= st.base + st.size

(***************************************************************************)
(* C29: after InjectionModule::new succeeds, breakpoint_trap() is the      *)
(* address of a one-byte executable allocation whose debuggee byte is      *)
(* 0xcc, and construction has written no debuggee byte outside that        *)
(* one-byte allocation.                                                    *)
(***************************************************************************)
\* ret.wrote is the set of debuggee addresses the write of new covered.
C29_TrapSlotOnly ==
    (ret.op = "new" /\ ret.res = "Ok") =>
        /\ [addr |-> breakpoint_trap, size |-> 1, cls |-> "code",
            align |-> EXECUTABLE_DATA_ALIGNMENT] \in allocs
        /\ mem[breakpoint_trap] = INT3
        /\ ret.wrote \subseteq {breakpoint_trap}

(***************************************************************************)
(* C30: ReadMemory::apply returns an error whenever fewer bytes were read  *)
(* than the sum of the requested lengths: both when the whole read faults  *)
(* (the remote range is unreadable) and when only part of it faults (a     *)
(* short read).                                                            *)
(***************************************************************************)
RECURSIVE Requested(_)
Requested(read_ops) ==
    IF Len(read_ops) = 0 THEN 0 ELSE read_ops[1].len + Requested(Tail(read_ops))

C30_ShortReadIsError ==
    (ret.op = "ReadMemory::apply" /\ Len(ret.local) < Requested(ret.read_ops)) =>
        ret.res = "Err"

(***************************************************************************)
(* C31: a single read whose remote range starts in a readable page and     *)
(* extends into an unreadable one returns Ok; the part of the local buffer *)
(* that corresponds to the readable bytes holds the remote bytes, and the  *)
(* rest of the local buffer keeps the value it had before apply.           *)
(***************************************************************************)
Readable(a) == a \in DOMAIN mem

\* A batch of one read that starts readable and runs into unreadable memory.
CrossesOut(read_ops) ==
    /\ Len(read_ops) = 1
    /\ Readable(read_ops[1].remote_base)
    /\ \E i \in 1..read_ops[1].len : ~Readable(read_ops[1].remote_base + i - 1)

\* The number of leading readable bytes of the read.
ReadablePrefix(op) ==
    CHOOSE n \in 0..op.len :
        /\ \A i \in 1..n : Readable(op.remote_base + i - 1)
        /\ n < op.len => ~Readable(op.remote_base + n)

C31_CrossPageReadKeepsRest ==
    (ret.op = "ReadMemory::apply" /\ CrossesOut(ret.read_ops)) =>
        /\ ret.res = "Ok"
        /\ Len(ret.after) = ret.read_ops[1].len
        /\ \A i \in 1..ret.read_ops[1].len :
               ret.after[i] = IF i <= ReadablePrefix(ret.read_ops[1])
                              THEN mem[ret.read_ops[1].remote_base + i - 1]
                              ELSE ret.before[i]

C31_Witness ==
    /\ ret.op = "ReadMemory::apply"
    /\ CrossesOut(ret.read_ops)
    /\ ret.read_ops[1].len = 8
    /\ ReadablePrefix(ret.read_ops[1]) = 4
    /\ ret.before[8] = 255
    /\ ret.after[8] = 255
    /\ ret.after[1] = mem[ret.read_ops[1].remote_base]

(***************************************************************************)
(* C32: between operations, after any sequence of define_* and             *)
(* finalize_all calls (including calls that return an error), an Id is in  *)
(* functions_to_finalize / data_objects_to_finalize exactly when it has a  *)
(* compiled object with finalized = false, and it appears there at most    *)
(* once; hence after a finalize_all that returns Ok both pending lists are *)
(* empty and every defined object is finalized.                            *)
(***************************************************************************)
\* The Ids of table tab that have a compiled object not yet finalized.
Unfinalized(tab) == {id \in DOMAIN tab : ~tab[id].finalized}
\* The list holds exactly the Ids of the set ids, each once.
ListsExactly(list, ids) ==
    /\ {list[i] : i \in 1..Len(list)} = ids
    /\ \A i, j \in 1..Len(list) : list[i] = list[j] => i = j

C32_PendingIffUnfinalized ==
    ~crashed =>
        /\ ListsExactly(functions_to_finalize, Unfinalized(functions))
        /\ ListsExactly(data_objects_to_finalize, Unfinalized(data_objects))

(***************************************************************************)
(* C33: under fair scheduling, every dispatch whose task terminates        *)
(* eventually returns to its caller, for any set of threads dispatching on *)
(* clones of one handle, including a task that, while running on the       *)
(* tracer thread, itself dispatches on a clone of the same handle (no      *)
(* deadlock).                                                              *)
(***************************************************************************)
\* Caller c is inside spawn: it holds the mutex and has not returned.
Dispatching(c) == cpc[c] \in {"locked", "sending", "receiving"}

C33_EveryDispatchReturns ==
    \A c \in Callers : Dispatching(c) ~> (cpc[c] = "idle")

(***************************************************************************)
(* C34: for every relocation of an object being finalized, the patch       *)
(* modifies only the bytes [offset, offset + width) of the local buffer    *)
(* (width 4 for Abs4/PCRel4/CallPCRel4, 8 for Abs8), and that range lies   *)
(* entirely inside the buffer [0, len); no byte outside the buffer is      *)
(* written and all other bytes of the buffer reach the debuggee unchanged. *)
(***************************************************************************)
\* Position i (from 1) of the buffer lies in the range relocation r patches.
InPatchRange(r, i) == i > r.offset /\ i <= r.offset + SlotWidth(r)

\* Finalizing object o, whose compiled object before the call is c, kept
\* every patch inside the buffer and sent the other bytes as they were.
PatchedInside(c, after) ==
    /\ \A j \in 1..Len(c.relocs) : c.relocs[j].offset + SlotWidth(c.relocs[j]) <= Len(c.bytes)
    /\ \A i \in 1..Len(c.bytes) :
           (\A j \in 1..Len(c.relocs) : ~InPatchRange(c.relocs[j], i)) =>
               after[c.region + i - 1] = c.bytes[i]

C34_PatchesStayInsideBuffer ==
    [][ret'.op = "finalize_all" =>
          /\ ret'.outside = {}
          /\ \A k \in 1..Len(ret'.done) : PatchedInside(Compiled(ret'.done[k]), mem')]_vars

(***************************************************************************)
(* C35: when resume (unpause) is called while the breakpoint table has no  *)
(* entry at PC - 1, it only continues the debuggee: it performs no         *)
(* single-step, and leaves the breakpoint table, the debuggee memory and   *)
(* the registers unchanged.                                                *)
(***************************************************************************)
\* The step is a call of unpause made with no table entry at rip - 1.
UnpauseWithoutEntry ==
    /\ CanCall
    /\ ret'.op = "unpause"
    /\ (rip - 1) \notin DOMAIN breakpoints

C35_ResumeWithoutEntryOnlyContinues ==
    [][UnpauseWithoutEntry =>
          /\ breakpoints' = breakpoints
          /\ mem' = mem
          /\ rip' = rip
          /\ execSince' = {}
          /\ stepOver' = NoStepOver
          /\ dstate' = IF ret'.res = "Ok" THEN "running" ELSE dstate]_vars

\* unpause has returned Ok with a breakpoint installed at the program
\* counter and none at PC - 1, and the debuggee has not moved yet.
C35_Witness ==
    /\ ret = [op |-> "unpause", res |-> "Ok"]
    /\ dstate = "running"
    /\ rip \in DOMAIN breakpoints
    /\ (rip - 1) \notin DOMAIN breakpoints
    /\ mem[rip] = INT3
    /\ execSince = {}
    /\ stepOver = NoStepOver

(***************************************************************************)
(* C36: if resume (unpause) returns an error at any step of the step-over  *)
(* sequence (remove, single-step, wait, re-set, write registers,           *)
(* continue), the set of breakpoint table entries and the 0xcc bytes       *)
(* installed in the debuggee are the same as before the call: no           *)
(* breakpoint is silently lost.                                            *)
(***************************************************************************)
\* The addresses of debuggee memory m that hold the trap instruction.
TrapBytes(m) == {a \in DOMAIN m : m[a] = INT3}

C36_FailedResumeKeepsBreakpoints ==
    [][(CanCall /\ ret'.op = "unpause" /\ ret'.res = "Err") =>
          /\ breakpoints' = breakpoints
          /\ TrapBytes(mem') = TrapBytes(mem)]_vars

(***************************************************************************)
(* C37: for a symbol table sorted by address, get_address_symbol(addr)     *)
(* returns the name of the symbol with the greatest address not above addr *)
(* for every addr at or above the lowest symbol address (including         *)
(* addresses at or beyond the last symbol), and returns None only for      *)
(* addresses below the first symbol; and                                   *)
(* get_address_symbol(get_symbol_address(n)) returns n.                    *)
(***************************************************************************)
\* The table has one symbol per address, in increasing order.
StrictlySorted(t) == \A i \in 1..(Len(t) - 1) : t[i].address < t[i + 1].address

\* The name of the symbol of t with the greatest address not above addr.
FloorName(t, addr) ==
    t[CHOOSE i \in 1..Len(t) :
          /\ t[i].address <= addr
          /\ \A j \in 1..Len(t) : t[j].address <= addr => t[j].address <= t[i].address].name

C37_AddressSymbolIsFloor ==
    /\ (ret.op = "get_address_symbol" /\ StrictlySorted(ret.symbols)) =>
          ret.res = IF ret.addr < ret.symbols[1].address THEN <<>>
                    ELSE <<FloorName(ret.symbols, ret.addr)>>
    /\ (ret.op = "get_symbol_address" /\ StrictlySorted(ret.symbols) /\ ret.res # <<>>) =>
          GetAddressSymbol(ret.symbols, ret.res[1]) = {<<ret.name>>}

=============================================================================
